---------------------------- MODULE Spec2Model ----------------------------
(***************************************************************************)
(* GRE-Insight: the mastery engine, the favorites/word-cache pair and the  *)
(* mock cloud synchronisation of src/App.tsx and the auth service          *)
(* (src/unnamed/part_004), as a state machine.                             *)
(*                                                                         *)
(* An execution context (a browser tab) is one element of Tabs; every      *)
(* React state cell of App is a function from Tabs.  The cloud database,   *)
(* the session key and the broadcast channel are shared by the tabs.       *)
(*                                                                         *)
(* Optional values (null, undefined, an absent field) are sequences of     *)
(* length 0 or 1: None is << >>, Some(x) is << x >>.                       *)
(*                                                                         *)
(* Time: Date.now() is the variable now, counted in seconds; calendar days *)
(* are the positive integers and the empty date string '' is NoDate.       *)
(***************************************************************************)
EXTENDS Integers, Sequences, FiniteSets, TLC

VARIABLES
    favorites,       \* [Tabs -> Seq(Entry)]             App.tsx:48
    wordCache,       \* [Tabs -> [subset of Words -> Entry]]  App.tsx:49
    history,         \* [Tabs -> Seq(Words)]             App.tsx:47
    settings,        \* [Tabs -> Settings]               App.tsx:72
    studyStats,      \* [Tabs -> StudyStats]             App.tsx:50
    user,            \* [Tabs -> Option(UserIds)]        App.tsx:56
    isSyncing,       \* [Tabs -> BOOLEAN]                App.tsx:58
    currentWord,     \* [Tabs -> Option(Entry)]          App.tsx:41
    previousWord,    \* [Tabs -> Option(Entry)]          App.tsx:42
    loading,         \* [Tabs -> BOOLEAN]                App.tsx:40
    error,           \* [Tabs -> BOOLEAN]   an error message is set, App.tsx:43
    reviewCandidate, \* [Tabs -> Option(Entry)]          App.tsx:44
    lookups,         \* [Tabs -> set of in-flight handleSearch calls]
    fetches,         \* [Tabs -> Seq of in-flight fetchUserData calls], oldest first
    saveTimer,       \* [Tabs -> set of armed timeouts of the cloud persist effect]
    saves,           \* [Tabs -> Nat]  saveUserData promises not yet settled
    inbox,           \* [Tabs -> Seq(event type)]  broadcast messages not yet handled
    cloud,           \* Option(Snapshot): db.userData[userId], part_004:16
    session,         \* Option(UserIds): localStorage[SESSION_KEY], part_004:5
    now,             \* Date.now(), in seconds
    today,           \* new Date().toISOString().split('T')[0], as a day number
    download,        \* Option: the backup file handleExportData saved last
    cards,           \* [Tabs -> the state of the Flashcards component],
                     \*   Flashcards.tsx:13-16
    stepsLeft,       \* the bound of the run: the steps it may still take
    audit,           \* history variable: the word keys held locally and remotely
                     \*   at the last login, and how far that login has got
    changedAt,       \* history variable: [Tabs -> time of the last change of a snapshot
                     \*   field or of the user]
    last             \* history variable: the handler that ran last, and what it saw

vars == << favorites, wordCache, history, settings, studyStats, user, isSyncing,
           currentWord, previousWord, loading, error, reviewCandidate, lookups,
           fetches, saveTimer, saves, inbox, cloud, session, now, today, download,
           cards, stepsLeft, audit, changedAt, last >>

----------------------------------------------------------------------------
(* Bounds of the model *)

MaxSteps == 5
MaxStudySteps == 5
MaxSyncSteps == 8
MaxMasterySteps == 3
MaxSelectorSteps == 2
MaxPool == 13
MaxStreakSteps == 2
MaxDay == 5
MaxHistorySteps == 2
MaxRemoteHistory == 3
MaxImportSteps == 3
MaxLoginSteps == 8
MaxOutageSteps == 5
MaxCardSteps == 6
MaxRandomSteps == 4
MaxFlashcardSteps == 7
MaxMoves == 2

(* Program constants *)

MaxMastery == 100
ReviewGain == 5
CorrectGain == 15
IncorrectLoss == 10
HistoryCap == 20
Debounce == 2

Tabs == {1, 2}
Words == {"abate", "zealous", "terse"}
UserIds == {"u1"}
Actions == {"review", "correct", "incorrect"}
NoDate == 0

None == << >>
Some(x) == << x >>
IsSome(o) == o # << >>
Val(o) == o[1]

Min(a, b) == IF a < b THEN a ELSE b
Max(a, b) == IF a > b THEN a ELSE b

----------------------------------------------------------------------------
(* Data *)

ZeroStats ==
    [reviews |-> 0, correctCount |-> 0, incorrectCount |-> 0,
     masteryScore |-> 0, lastReviewed |-> 0]

MkStats(m, r, c, i, l) ==
    [reviews |-> r, correctCount |-> c, incorrectCount |-> i,
     masteryScore |-> m, lastReviewed |-> l]

MkEntry(w, ts, st) == [word |-> w, timestamp |-> ts, stats |-> st]

\* fetchWordData: the profile the lookup collaborator returns for word w at
\* time ts, with "empty stats for new words".
FetchedEntry(w, ts) == MkEntry(w, ts, Some(ZeroStats))

DefaultSettings == [darkMode |-> FALSE]
DefaultStudyStats == [streakDays |-> 0, lastStudyDate |-> NoDate]

MkSnapshot(f, h, s, c, st) ==
    [favorites |-> f, history |-> h, settings |-> s, wordCache |-> c, studyStats |-> st]

EmptyCache == [w \in {} |-> MkEntry("abate", 0, None)]

\* Array helpers
RECURSIVE FilterSeq(_, _)
FilterSeq(s, w) ==
    \* prev.filter(x => x !== w)
    IF s = << >> THEN << >>
    ELSE IF Head(s) = w THEN FilterSeq(Tail(s), w)
         ELSE << Head(s) >> \o FilterSeq(Tail(s), w)

Slice(s, n) == SubSeq(s, 1, Min(n, Len(s)))

HasWord(favs, w) == \E i \in 1..Len(favs) : favs[i].word = w
FavWords(favs) == {favs[i].word : i \in 1..Len(favs)}


Lower(s) ==
    \* String.prototype.toLowerCase on the strings of the model
    CASE s = "Abate" -> "abate"
      [] s = "ABATE" -> "abate"
      [] OTHER -> s

----------------------------------------------------------------------------
(* Mastery engine: the body of the setWordCache updater of updateWordStats *)

StatsOrDefault(st) ==
    \* data.stats || { reviews: 0, ... }
    IF IsSome(st) THEN Val(st) ELSE ZeroStats

NewStatsUnclamped(st, action, t) ==
    \* the transition without Math.min / Math.max
    LET stats == StatsOrDefault(st)
        newStats == [stats EXCEPT !.lastReviewed = t, !.reviews = @ + 1]
    IN CASE action = "review" ->
              [newStats EXCEPT !.masteryScore = @ + ReviewGain]
         [] action = "correct" ->
              [newStats EXCEPT !.correctCount = @ + 1,
                               !.masteryScore = @ + CorrectGain]
         [] OTHER ->
              [newStats EXCEPT !.incorrectCount = @ + 1,
                               !.masteryScore = @ - IncorrectLoss]

NewStatsEvenLoss(st, action, t) ==
    \* an incorrect answer costing as much as a correct one gains
    LET stats == StatsOrDefault(st)
        newStats == [stats EXCEPT !.lastReviewed = t, !.reviews = @ + 1]
    IN CASE action = "review" ->
              [newStats EXCEPT !.masteryScore = Min(MaxMastery, @ + ReviewGain)]
         [] action = "correct" ->
              [newStats EXCEPT !.correctCount = @ + 1,
                               !.masteryScore = Min(MaxMastery, @ + CorrectGain)]
         [] OTHER ->
              [newStats EXCEPT !.incorrectCount = @ + 1,
                               !.masteryScore = Max(0, @ - CorrectGain)]

NewStats(st, action, t) ==
    LET stats == StatsOrDefault(st)
        newStats == [stats EXCEPT !.lastReviewed = t]
    IN CASE action = "review" ->
              [newStats EXCEPT !.reviews = @ + 1,
                               !.masteryScore = Min(MaxMastery, stats.masteryScore + ReviewGain)]
         [] action = "correct" ->
              [newStats EXCEPT !.reviews = @ + 1,
                               !.correctCount = @ + 1,
                               !.masteryScore = Min(MaxMastery, stats.masteryScore + CorrectGain)]
         [] action = "incorrect" ->
              [newStats EXCEPT !.reviews = @ + 1,
                               !.incorrectCount = @ + 1,
                               !.masteryScore = Max(0, stats.masteryScore - IncorrectLoss)]
         [] OTHER -> newStats

UpdatedWord(data, action, t) ==
    \* { ...data, stats: newStats }
    [data EXCEPT !.stats = Some(NewStats(data.stats, action, t))]

MapFavoritesUntouched(currFavs, word, updatedWord) ==
    \* the update written to the cache only
    currFavs

MapFavorites(currFavs, word, updatedWord) ==
    \* currFavs.map(f => f.word === word ? updatedWord : f)
    [i \in 1..Len(currFavs) |->
        IF currFavs[i].word = word THEN updatedWord ELSE currFavs[i]]

PutCache(prev, key, data) ==
    \* { ...prev, [key]: data }
    [k \in DOMAIN prev \cup {key} |-> IF k = key THEN data ELSE prev[k]]

----------------------------------------------------------------------------
(* Streak tracker *)

CheckDailyStreakAnyGap(currentStats, day) ==
    \* a streak that survives a gap
    IF currentStats.lastStudyDate = day THEN currentStats
    ELSE IF currentStats.lastStudyDate # NoDate
         THEN [streakDays |-> currentStats.streakDays + 1, lastStudyDate |-> day]
         ELSE [streakDays |-> 1, lastStudyDate |-> day]

CheckDailyStreak(currentStats, day) ==
    \* The studyStats cell after setStudyStats(currentStats) (or the default
    \* cell) followed by checkDailyStreak(currentStats) on calendar day `day`.
    IF currentStats.lastStudyDate = day THEN currentStats
    ELSE IF currentStats.lastStudyDate # NoDate
            /\ currentStats.lastStudyDate = day - 1
         THEN [streakDays |-> currentStats.streakDays + 1, lastStudyDate |-> day]
         ELSE [streakDays |-> 1, lastStudyDate |-> day]

----------------------------------------------------------------------------
(* Sync merge engine: the updaters of performCloudSync *)

RECURSIVE DedupeKeys(_, _)
DedupeKeys(ws, seen) ==
    \* insertion order of a Map / Set: every key once, at its first occurrence
    IF ws = << >> THEN << >>
    ELSE IF Head(ws) \in seen THEN DedupeKeys(Tail(ws), seen)
         ELSE << Head(ws) >> \o DedupeKeys(Tail(ws), seen \cup {Head(ws)})

LastWithWord(items, w) ==
    \* the value a Map built from [item.word, item] pairs holds for key w
    LET idx == {i \in 1..Len(items) : items[i].word = w}
    IN items[CHOOSE i \in idx : \A j \in idx : j <= i]

MergeFavoritesLocalWins(prev, cloudFavs) ==
    \* the two lists spread in the other order
    LET combined == cloudFavs \o prev
        keys == DedupeKeys([i \in 1..Len(combined) |-> combined[i].word], {})
    IN [i \in 1..Len(keys) |-> LastWithWord(combined, keys[i])]

MergeFavoritesAppending(prev, cloudFavs) ==
    \* the two lists concatenated without the Map
    prev \o cloudFavs

MergeFavorites(prev, cloudFavs) ==
    \* Array.from(new Map([...prev, ...cloud].map(item => [item.word, item])).values())
    LET combined == prev \o cloudFavs
        keys == DedupeKeys([i \in 1..Len(combined) |-> combined[i].word], {})
    IN [i \in 1..Len(keys) |-> LastWithWord(combined, keys[i])]

MergeHistory(prev, cloudHist) ==
    \* Array.from(new Set([...prev, ...cloud])).slice(0, 20)
    Slice(DedupeKeys(prev \o cloudHist, {}), HistoryCap)

MergeCacheLocalWins(prev, cloudCache) ==
    \* { ...cloudData.wordCache, ...prev }
    [k \in DOMAIN prev \cup DOMAIN cloudCache |->
        IF k \in DOMAIN prev THEN prev[k] ELSE cloudCache[k]]

MergeCache(prev, cloudCache) ==
    \* { ...prev, ...cloudData.wordCache }
    [k \in DOMAIN prev \cup DOMAIN cloudCache |->
        IF k \in DOMAIN cloudCache THEN cloudCache[k] ELSE prev[k]]

MergeOnLoginSpreadingSettings(local, cloudData, day) ==
    \* settings merged field by field: { ...prev, ...cloudData.settings }
    MkSnapshot(MergeFavorites(local.favorites, cloudData.favorites),
               MergeHistory(local.history, cloudData.history),
               [k \in DOMAIN local.settings \cup DOMAIN cloudData.settings |->
                   IF k \in DOMAIN cloudData.settings THEN cloudData.settings[k]
                   ELSE local.settings[k]],
               MergeCache(local.wordCache, cloudData.wordCache),
               CheckDailyStreak(cloudData.studyStats, day))

MergeOnLogin(local, cloudData, day) ==
    \* performCloudSync with isLogin = true and cloudData present
    MkSnapshot(MergeFavorites(local.favorites, cloudData.favorites),
               MergeHistory(local.history, cloudData.history),
               cloudData.settings,
               MergeCache(local.wordCache, cloudData.wordCache),
               CheckDailyStreak(cloudData.studyStats, day))

ReplaceKeepingFavorites(local, cloudData, day) ==
    \* the listener keeping the local favorites the remote lacks
    MkSnapshot(MergeFavorites(local.favorites, cloudData.favorites),
               cloudData.history,
               cloudData.settings,
               cloudData.wordCache,
               CheckDailyStreak(cloudData.studyStats, day))

ReplaceOnSync(local, cloudData, day) ==
    \* the sync listener with cloudData present
    MkSnapshot(cloudData.favorites,
               cloudData.history,
               cloudData.settings,
               cloudData.wordCache,
               CheckDailyStreak(cloudData.studyStats, day))

PushHistory(prev, w) ==
    \* [w, ...prev.filter(x => x !== w)].slice(0, 20)
    Slice(<< w >> \o FilterSeq(prev, w), HistoryCap)


----------------------------------------------------------------------------
(* Review candidate selector *)

CandidateWindow == 12

MasteryOf(e) == StatsOrDefault(e.stats).masteryScore
LastReviewedOf(e) == StatsOrDefault(e.stats).lastReviewed

Before(a, b) ==
    \* the comparator of getReviewCandidate is negative for (a, b)
    \/ MasteryOf(a) < MasteryOf(b)
    \/ MasteryOf(a) = MasteryOf(b) /\ LastReviewedOf(a) < LastReviewedOf(b)

SameRank(a, b) ==
    MasteryOf(a) = MasteryOf(b) /\ LastReviewedOf(a) = LastReviewedOf(b)

CacheValues(cache) ==
    \* Object.values(wordCache), in some fixed order of the keys
    LET RECURSIVE Vals(_)
        Vals(ks) == IF ks = {} THEN << >>
                    ELSE LET k == CHOOSE x \in ks : TRUE
                         IN << cache[k] >> \o Vals(ks \ {k})
    IN Vals(DOMAIN cache)

ReviewPoolCacheOnly(favs, cache) ==
    \* every cached word, whatever the favorites hold
    CacheValues(cache)

ReviewPool(favs, cache) ==
    IF Len(favs) > 0 THEN favs ELSE CacheValues(cache)

SortedPosition(pool, i) ==
    \* the index (from 0) of pool[i] after the stable sort
    Cardinality({j \in 1..Len(pool) :
                    \/ Before(pool[j], pool[i])
                    \/ SameRank(pool[j], pool[i]) /\ j < i})

ReviewCandidatesAnywhere(favs, cache) ==
    \* any word of the pool, without the window
    LET pool == ReviewPool(favs, cache)
    IN IF Len(pool) = 0 THEN {None}
       ELSE {Some(pool[j]) : j \in 1..Len(pool)}

ReviewCandidates(favs, cache) ==
    \* what getReviewCandidate may return: None on an empty pool, else any of
    \* the first min(12, length) elements of the sorted pool
    LET pool == ReviewPool(favs, cache)
    IN IF Len(pool) = 0 THEN {None}
       ELSE {Some(pool[i]) : i \in {j \in 1..Len(pool) :
                                       SortedPosition(pool, j) < Min(CandidateWindow, Len(pool))}}

----------------------------------------------------------------------------
(* State helpers *)

Snap(t) ==
    \* const userData = { favorites, history, settings, wordCache, studyStats }
    MkSnapshot(favorites[t], history[t], settings[t], wordCache[t], studyStats[t])

Others(t) == Tabs \ {t}

Broadcast(t, ev) ==
    \* syncChannel.postMessage: queued for every other context
    inbox' = [r \in Tabs |-> IF r = t THEN inbox[r] ELSE Append(inbox[r], ev)]

ArmedTimersThrottled(old, newUser, oldUser, touched, data, t) ==
    \* a pending timeout left running when a dependency changes
    IF newUser = None THEN {}
    ELSE IF old # {} THEN old
    ELSE IF touched \/ newUser # oldUser
         THEN {[deadline |-> t + Debounce, data |-> data, uid |-> Val(newUser),
                replaced |-> FALSE]}
         ELSE old

ArmedTimers(old, newUser, oldUser, touched, data, t) ==
    \* The cloud persist effect after a render, App.tsx:161-169.  When one of
    \* its dependencies changed, the cleanup of the previous run clears its
    \* timeout; then, with a user, a new timeout is set whose callback holds
    \* the snapshot and the user of this render.
    IF touched \/ newUser # oldUser
    THEN IF newUser = None THEN {}
         ELSE {[deadline |-> t + Debounce, data |-> data, uid |-> Val(newUser),
                replaced |-> old # {}]}
    ELSE old

ArmSave(t, touched) ==
    \* to be stated after the primed snapshot fields and user
    saveTimer' = [saveTimer EXCEPT
                    ![t] = ArmedTimers(@, user'[t], user[t], touched, Snap(t)', now)]

Note(op, t, info) == [op |-> op, tab |-> t, info |-> info]

SnapshotVars == << favorites, wordCache, history, settings, studyStats >>
SearchVars == << currentWord, previousWord, loading, error, reviewCandidate, lookups >>
SharedVars == << cloud, session, inbox >>
ClockVars == << now, today >>

NoCards ==
    \* the Flashcards component not mounted
    [open |-> FALSE, sortedWords |-> << >>, currentIndex |-> 0, isFlipped |-> FALSE,
     reviewed |-> {}, moves |-> << >>, flips |-> << >>, calls |-> << >>,
     left |-> {}, start |-> << >>]

NoAudit ==
    [on |-> FALSE, tab |-> 0, favorites |-> {}, wordCache |-> {}, merged |-> FALSE,
     saved |-> FALSE]

LoginAudit == [NoAudit EXCEPT !.on = TRUE]

Audited(a, note, local, remote) ==
    \* the history variable audit after the handler that left note, local and
    \* remote being the snapshots before it: a login records the word keys of
    \* both sides, its merge and the save after the merge are ticked off
    IF ~a.on THEN a
    ELSE IF note.op \in {"login", "register"}
    THEN [on |-> TRUE, tab |-> note.tab,
          favorites |-> {local[note.tab].favorites[i].word :
                             i \in DOMAIN local[note.tab].favorites}
                        \cup (IF IsSome(remote)
                              THEN {Val(remote).favorites[i].word :
                                        i \in DOMAIN Val(remote).favorites}
                              ELSE {}),
          wordCache |-> DOMAIN local[note.tab].wordCache
                        \cup (IF IsSome(remote) THEN DOMAIN Val(remote).wordCache ELSE {}),
          merged |-> FALSE, saved |-> FALSE]
    ELSE IF note.op = "logout" /\ note.tab = a.tab THEN LoginAudit
    ELSE IF note.op = "fetchDone" /\ note.tab = a.tab /\ note.info.origin = "login"
    THEN [a EXCEPT !.merged = TRUE]
    ELSE IF note.op = "saveFire" /\ note.tab = a.tab /\ a.merged
    THEN [a EXCEPT !.saved = TRUE]
    ELSE a

Step ==
    \* bookkeeping of every step, stated after the primed snapshot fields and
    \* user: the bound of the run and the history variables audit and changedAt
    /\ stepsLeft > 0
    /\ stepsLeft' = stepsLeft - 1
    /\ audit' = IF last' = last THEN audit
                ELSE Audited(audit, last', [t \in Tabs |-> Snap(t)], cloud)
    /\ changedAt' = [t \in Tabs |->
                       IF Snap(t)' # Snap(t) \/ user'[t] # user[t] THEN now
                       ELSE changedAt[t]]

SetSnapshot(t, snap) ==
    /\ favorites' = [favorites EXCEPT ![t] = snap.favorites]
    /\ history' = [history EXCEPT ![t] = snap.history]
    /\ settings' = [settings EXCEPT ![t] = snap.settings]
    /\ wordCache' = [wordCache EXCEPT ![t] = snap.wordCache]
    /\ studyStats' = [studyStats EXCEPT ![t] = snap.studyStats]


----------------------------------------------------------------------------
(* Initial states: a session start.  Both tabs load the same localStorage  *)
(* (the Initial Load effect, App.tsx:114-144); the cloud database and the  *)
(* session key hold what an earlier session left.  A cloud database        *)
(* without data for the user is what fetchUserData answers null for.       *)

Abate20 == MkEntry("abate", 0, Some(MkStats(20, 2, 1, 0, 0)))
Abate80 == MkEntry("abate", 0, Some(MkStats(80, 6, 5, 0, 0)))
Zealous10 == MkEntry("zealous", 0, Some(MkStats(10, 2, 0, 0, 0)))

EmptyLocal ==
    MkSnapshot(<< >>, << >>, DefaultSettings, EmptyCache, DefaultStudyStats)

Terse0 == FetchedEntry("terse", 0)

AbateLocal ==
    \* abate looked up, favorited and studied; terse only looked up
    MkSnapshot(<< Abate20 >>, << "terse", "abate" >>, DefaultSettings,
               [w \in {"abate", "terse"} |-> IF w = "abate" THEN Abate20 ELSE Terse0],
               [streakDays |-> 3, lastStudyDate |-> 1])

LocalPool == {EmptyLocal, AbateLocal}

RemoteBoth ==
    MkSnapshot(<< Abate80, Zealous10 >>, << "zealous", "abate" >>, [darkMode |-> TRUE],
               [w \in {"abate", "zealous"} |-> IF w = "abate" THEN Abate80 ELSE Zealous10],
               [streakDays |-> 2, lastStudyDate |-> 1])

CloudPool == {None, Some(RemoteBoth)}

StartFetch == [merge |-> TRUE, origin |-> "start"]

Started(f, at) ==
    \* a fetchUserData call made at time at: its delay(400) is a timeout set
    \* at that moment, part_004:132
    [merge |-> f.merge, origin |-> f.origin, since |-> at]

InitOf(locals, clouds, sessions, bound, days, audits) ==
    /\ now = 1
    /\ audit \in audits
    /\ today \in days
    /\ cloud \in clouds
    /\ session \in sessions
    /\ \E local \in locals :
          /\ favorites = [t \in Tabs |-> local.favorites]
          /\ history = [t \in Tabs |-> local.history]
          /\ wordCache = [t \in Tabs |-> local.wordCache]
          /\ settings = [t \in Tabs |-> local.settings]
          /\ studyStats = [t \in Tabs |-> CheckDailyStreak(local.studyStats, today)]
          /\ last = Note("init", 0, [loaded |-> local.studyStats])
    /\ user = [t \in Tabs |-> session]
    /\ isSyncing = [t \in Tabs |-> IsSome(session)]
    /\ fetches = [t \in Tabs |-> IF IsSome(session) THEN << Started(StartFetch, now) >> ELSE << >>]
    /\ saveTimer = [t \in Tabs |->
                      ArmedTimers({}, session, None, FALSE, Snap(t), now)]
    /\ changedAt = [t \in Tabs |-> now]
    /\ saves = [t \in Tabs |-> 0]
    /\ currentWord = [t \in Tabs |-> None]
    /\ previousWord = [t \in Tabs |-> None]
    /\ loading = [t \in Tabs |-> FALSE]
    /\ error = [t \in Tabs |-> FALSE]
    /\ reviewCandidate = [t \in Tabs |-> None]
    /\ lookups = [t \in Tabs |-> {}]
    /\ inbox = [t \in Tabs |-> << >>]
    /\ download = None
    /\ cards = [t \in Tabs |-> NoCards]
    /\ stepsLeft = bound

InitOn(locals, clouds, sessions, bound, days) ==
    InitOf(locals, clouds, sessions, bound, days, {NoAudit})

InitWith(locals, clouds, sessions, bound) ==
    \* a session start on calendar day 2
    InitOn(locals, clouds, sessions, bound, {2})

Init == InitWith({AbateLocal}, CloudPool, {None, Some("u1")}, MaxSteps)

----------------------------------------------------------------------------
(* Mastery actions *)

ApplyWordStats(t, word, action) ==
    \* updateWordStats(word, action), App.tsx:218-253.  Flashcards pass a
    \* favorited word with 'review'; the quiz passes a word of its pool.
    /\ IF action = "review" THEN HasWord(favorites[t], word)
       ELSE word \in DOMAIN wordCache[t] \/ HasWord(favorites[t], word)
    /\ IF word \notin DOMAIN wordCache[t]
       THEN \* if (!data) return prev
            /\ UNCHANGED << SnapshotVars, saveTimer >>
            /\ last' = Note("updateWordStats", t,
                            [word |-> word, action |-> action, applied |-> FALSE,
                             at |-> now, cacheBefore |-> None,
                             favBefore |-> None, prior |-> None])
       ELSE LET data == wordCache[t][word]
                updatedWord == UpdatedWord(data, action, now)
            IN /\ favorites' = [favorites EXCEPT
                                  ![t] = MapFavorites(@, word, updatedWord)]
               /\ wordCache' = [wordCache EXCEPT
                                  ![t] = PutCache(@, word, updatedWord)]
               /\ UNCHANGED << history, settings, studyStats >>
               /\ last' = Note("updateWordStats", t,
                               [word |-> word, action |-> action, applied |-> TRUE,
                                at |-> now, cacheBefore |-> Some(data),
                                favBefore |->
                                   IF HasWord(favorites[t], word)
                                   THEN Some(LastWithWord(favorites[t], word))
                                   ELSE None,
                                prior |->
                                   IF /\ last.op = "updateWordStats"
                                      /\ last.tab = t
                                      /\ last.info.word = word
                                      /\ last.info.applied
                                   THEN Some([action |-> last.info.action,
                                              cacheBefore |-> last.info.cacheBefore])
                                   ELSE None])
               /\ UNCHANGED user
               /\ ArmSave(t, TRUE)
    /\ UNCHANGED << user, isSyncing, SearchVars, fetches, saves, SharedVars, ClockVars >>
    /\ UNCHANGED download
    /\ Step

UpdateWordStats(t, word, action) ==
    \* updateWordStats with the Flashcards component left as it is
    /\ ApplyWordStats(t, word, action)
    /\ UNCHANGED cards

----------------------------------------------------------------------------
(* Flashcards.  The component is mounted while viewMode is FLASHCARDS; its  *)
(* state is sortedWords (here the word keys, in order), currentIndex,       *)
(* isFlipped and reviewedSessionWords, and the 200 ms timeouts of Next and  *)
(* Prev not yet run.  The fields flips, calls, left and start are history   *)
(* fields: the front-to-back flips and the onReview calls of each word in   *)
(* this session, the words whose card was left for another one, and         *)
(* wordCache when the session began.  With no favorites the component       *)
(* shows no card, Flashcards.tsx:39-48, and nothing can be flipped.         *)

SortedByMastery(words) ==
    \* [...words].sort((a, b) => masteryA - masteryB), a stable sort,
    \* Flashcards.tsx:22-26
    LET place(i) == 1 + Cardinality({j \in 1..Len(words) :
                          \/ MasteryOf(words[j]) < MasteryOf(words[i])
                          \/ MasteryOf(words[j]) = MasteryOf(words[i]) /\ j < i})
    IN [p \in 1..Len(words) |->
           words[CHOOSE i \in 1..Len(words) : place(i) = p].word]

CurrentCard(c) == c.sortedWords[c.currentIndex + 1]

ShouldReviewEveryFlip(c) ==
    \* a flip that counts whenever the front is showing
    ~c.isFlipped

ShouldReview(c) ==
    \* handleFlip: front to back, and not yet reviewed in this session,
    \* Flashcards.tsx:55-58
    ~c.isFlipped /\ CurrentCard(c) \notin c.reviewed

OpenFlashcards(t) ==
    \* the flashcards button, App.tsx:571, and the mount of the component with
    \* words = favorites, Flashcards.tsx:13-36
    /\ ~cards[t].open
    /\ favorites[t] # << >>
    /\ cards' = [cards EXCEPT ![t] =
                   [open |-> TRUE, sortedWords |-> SortedByMastery(favorites[t]),
                    currentIndex |-> 0, isFlipped |-> FALSE, reviewed |-> {},
                    moves |-> << >>,
                    flips |-> [w \in FavWords(favorites[t]) |-> 0],
                    calls |-> [w \in FavWords(favorites[t]) |-> 0],
                    left |-> {},
                    start |-> wordCache[t]]]
    /\ last' = Note("openFlashcards", t, << >>)
    /\ UNCHANGED << SnapshotVars, user, isSyncing, SearchVars, fetches, saveTimer,
                    saves, SharedVars, ClockVars >>
    /\ UNCHANGED download
    /\ Step

CloseFlashcards(t) ==
    \* onClose, App.tsx:822-825: the component unmounts
    /\ cards[t].open
    /\ cards' = [cards EXCEPT ![t] = NoCards]
    /\ last' = Note("closeFlashcards", t, << >>)
    /\ UNCHANGED << SnapshotVars, user, isSyncing, SearchVars, fetches, saveTimer,
                    saves, SharedVars, ClockVars >>
    /\ UNCHANGED download
    /\ Step

HandleFlip(t) ==
    \* handleFlip, Flashcards.tsx:54-64, with onReview = (w) =>
    \* updateWordStats(w, 'review'), App.tsx:827
    /\ cards[t].open
    /\ LET c == cards[t]
           w == CurrentCard(c)
           flipped == [c EXCEPT !.isFlipped = ~c.isFlipped,
                                !.flips[w] = IF c.isFlipped THEN @ ELSE @ + 1]
       IN IF ShouldReview(c)
          THEN /\ ApplyWordStats(t, w, "review")
               /\ cards' = [cards EXCEPT ![t] =
                              [flipped EXCEPT !.reviewed = @ \cup {w},
                                              !.calls[w] = @ + 1]]
          ELSE /\ cards' = [cards EXCEPT ![t] = flipped]
               /\ last' = Note("handleFlip", t, [word |-> w])
               /\ UNCHANGED << SnapshotVars, user, isSyncing, SearchVars, fetches,
                               saveTimer, saves, SharedVars, ClockVars >>
               /\ UNCHANGED download
               /\ Step

HandleMove(t, by) ==
    \* handleNext (by = 1) and handlePrev (by = -1) up to their timeout,
    \* Flashcards.tsx:66-80
    /\ cards[t].open
    /\ Len(cards[t].moves) < MaxMoves
    /\ cards' = [cards EXCEPT ![t] = [@ EXCEPT !.isFlipped = FALSE,
                                               !.moves = Append(@, by)]]
    /\ last' = Note("handleMove", t, [by |-> by])
    /\ UNCHANGED << SnapshotVars, user, isSyncing, SearchVars, fetches, saveTimer,
                    saves, SharedVars, ClockVars >>
    /\ UNCHANGED download
    /\ Step

MoveTimeout(t) ==
    \* the 200 ms timeout of handleNext or handlePrev: setCurrentIndex,
    \* Flashcards.tsx:69-71 and 77-79
    /\ cards[t].open
    /\ cards[t].moves # << >>
    /\ LET c == cards[t]
           n == Len(c.sortedWords)
           to == (c.currentIndex + Head(c.moves) + n) % n
       IN cards' = [cards EXCEPT ![t] =
                      [c EXCEPT !.currentIndex = to,
                                !.moves = Tail(c.moves),
                                !.left = IF to = c.currentIndex
                                         THEN @ ELSE @ \cup {CurrentCard(c)}]]
    /\ last' = Note("moveTimeout", t, << >>)
    /\ UNCHANGED << SnapshotVars, user, isSyncing, SearchVars, fetches, saveTimer,
                    saves, SharedVars, ClockVars >>
    /\ UNCHANGED download
    /\ Step

----------------------------------------------------------------------------
(* Favorites *)

ToggledAlwaysAdding(prev, word) ==
    \* an updater that inserts without looking for the key
    << word >> \o prev

Toggled(prev, word) ==
    \* the setFavorites updater of toggleFavorite, App.tsx:419-423
    IF HasWord(prev, word.word)
    THEN LET RECURSIVE Without(_)
             Without(s) == IF s = << >> THEN << >>
                           ELSE IF Head(s).word = word.word THEN Without(Tail(s))
                                ELSE << Head(s) >> \o Without(Tail(s))
         IN Without(prev)
    ELSE << word >> \o prev

ToggleFavorite(t, word, from) ==
    /\ favorites' = [favorites EXCEPT ![t] = Toggled(@, word)]
    /\ last' = Note("toggleFavorite", t,
                    [word |-> word.word, from |-> from,
                     added |-> ~HasWord(favorites[t], word.word)])
    /\ UNCHANGED << wordCache, history, settings, studyStats, isSyncing, SearchVars,
                    fetches, saves, SharedVars, ClockVars >>
    /\ UNCHANGED user
    /\ ArmSave(t, TRUE)
    /\ UNCHANGED << download, cards >>
    /\ Step

ToggleFavoriteCurrent(t) ==
    \* the star of the word card: toggleFavorite(currentWord), App.tsx:707-711
    /\ IsSome(currentWord[t])
    /\ ~loading[t]
    /\ ~error[t]
    /\ ToggleFavorite(t, Val(currentWord[t]), "card")

RemoveFromWordBook(t, i) ==
    \* the close button of a word-book tile: toggleFavorite(word), App.tsx:795
    /\ i \in 1..Len(favorites[t])
    /\ ToggleFavorite(t, favorites[t][i], "book")

ShowFavorite(t, i) ==
    \* a click on a word-book tile: setCurrentWord(word), App.tsx:785-789
    /\ i \in 1..Len(favorites[t])
    /\ currentWord' = [currentWord EXCEPT ![t] = Some(favorites[t][i])]
    /\ last' = Note("showFavorite", t, [word |-> favorites[t][i].word])
    /\ UNCHANGED << SnapshotVars, user, isSyncing, previousWord, loading, error,
                    reviewCandidate, lookups, fetches, saveTimer, saves, SharedVars,
                    ClockVars >>
    /\ UNCHANGED << download, cards >>
    /\ Step

ToggleTheme(t) ==
    \* toggleTheme, App.tsx:427
    /\ settings' = [settings EXCEPT ![t] = [@ EXCEPT !.darkMode = ~@]]
    /\ last' = Note("toggleTheme", t, << >>)
    /\ UNCHANGED << favorites, wordCache, history, studyStats, isSyncing, SearchVars,
                    fetches, saves, SharedVars, ClockVars >>
    /\ UNCHANGED user
    /\ ArmSave(t, TRUE)
    /\ UNCHANGED << download, cards >>
    /\ Step


----------------------------------------------------------------------------
(* Backup files.  A file is the text handed to JSON.parse: either text    *)
(* that JSON.parse throws on (garbled text; the document null, whose first *)
(* property read throws inside the same try), or a JSON object, modelled   *)
(* by its five top-level keys.  A key is None when it is missing or holds  *)
(* a falsy value (null, false, 0, ""), and Some(v) when it holds v.        *)

NoKeys ==
    [favorites |-> None, history |-> None, wordCache |-> None, settings |-> None,
     studyStats |-> None]

ExportFileDroppingEmpty(data) ==
    \* a writer that leaves out the keys of empty lists
    [kind |-> "object",
     keys |-> [favorites |-> IF data.favorites = << >> THEN None ELSE Some(data.favorites),
               history |-> IF data.history = << >> THEN None ELSE Some(data.history),
               wordCache |-> Some(data.wordCache), settings |-> Some(data.settings),
               studyStats |-> Some(data.studyStats)]]

ExportFile(data) ==
    \* JSON.stringify({ favorites, history, settings, wordCache, studyStats }),
    \* App.tsx:385-386: every state field is an array or an object and is
    \* written under its key; a word without stats is written without the
    \* stats key.
    [kind |-> "object",
     keys |-> [favorites |-> Some(data.favorites), history |-> Some(data.history),
               wordCache |-> Some(data.wordCache), settings |-> Some(data.settings),
               studyStats |-> Some(data.studyStats)]]

ImportedReplacingAll(local, file) ==
    \* an import that resets the fields the file does not have
    IF file.kind # "object" THEN local
    ELSE MkSnapshot(
           IF IsSome(file.keys.favorites) THEN Val(file.keys.favorites) ELSE << >>,
           IF IsSome(file.keys.history) THEN Val(file.keys.history) ELSE << >>,
           IF IsSome(file.keys.settings) THEN Val(file.keys.settings) ELSE DefaultSettings,
           IF IsSome(file.keys.wordCache) THEN Val(file.keys.wordCache) ELSE EmptyCache,
           IF IsSome(file.keys.studyStats) THEN Val(file.keys.studyStats)
           ELSE DefaultStudyStats)

Imported(local, file) ==
    \* the snapshot after reader.onload, App.tsx:401-413: JSON.parse throws
    \* before any setter runs; then each truthy key is set, the others stay
    IF file.kind # "object" THEN local
    ELSE MkSnapshot(
           IF IsSome(file.keys.favorites) THEN Val(file.keys.favorites) ELSE local.favorites,
           IF IsSome(file.keys.history) THEN Val(file.keys.history) ELSE local.history,
           IF IsSome(file.keys.settings) THEN Val(file.keys.settings) ELSE local.settings,
           IF IsSome(file.keys.wordCache) THEN Val(file.keys.wordCache) ELSE local.wordCache,
           IF IsSome(file.keys.studyStats) THEN Val(file.keys.studyStats)
           ELSE local.studyStats)

ImportAlert(file) ==
    \* the alert of handleImportData, App.tsx:409 and 412
    IF file.kind = "object" THEN "Data imported successfully!" ELSE "Invalid file format."

HandleExportData(t) ==
    \* handleExportData, App.tsx:384-395.  The field snapshot of download is a
    \* history variable: the state the file was written from.
    /\ download' = Some([file |-> ExportFile(Snap(t)), snapshot |-> Snap(t)])
    /\ UNCHANGED cards
    /\ last' = Note("exportData", t, [file |-> ExportFile(Snap(t))])
    /\ UNCHANGED << SnapshotVars, user, isSyncing, SearchVars, fetches, saveTimer,
                    saves, SharedVars, ClockVars >>
    /\ Step

HandleImportData(t, file) ==
    \* handleImportData with the chosen file read, App.tsx:397-416
    /\ SetSnapshot(t, Imported(Snap(t), file))
    /\ last' = Note("importData", t,
                    [file |-> file, before |-> Snap(t), alert |-> ImportAlert(file)])
    /\ UNCHANGED << user, isSyncing, SearchVars, fetches, saves, SharedVars, ClockVars >>
    /\ ArmSave(t, file.kind = "object" /\ file.keys # NoKeys)
    /\ UNCHANGED << download, cards >>
    /\ Step

----------------------------------------------------------------------------
(* Search *)

Terms == Words \cup {"Abate", "abaet"}

LookupResults(term) ==
    \* The words fetchWordData may answer with: the word itself when the term
    \* is a valid word, else the "closest valid GRE vocabulary word"
    \* (geminiService.ts:103-108), which is any word.
    IF Lower(term) \in Words THEN {Lower(term)} ELSE Words

CachedKeysExact(cache, term) ==
    \* a probe that compares the keys as they are: wordCache[cleanTerm]
    {k \in DOMAIN cache : k = term}

CachedKeys(cache, term) ==
    \* Object.keys(wordCache).find(k => k.toLowerCase() === lowerTerm)
    {k \in DOMAIN cache : Lower(k) = Lower(term)}

Superseded(pending, term) ==
    \* history field of the lookups in flight: the term of the newest lookup
    \* started after them
    {[lk EXCEPT !.newer = Some(term)] : lk \in pending}

HandleSearch(t, term) ==
    \* handleSearch up to its first suspension, App.tsx:314-348
    /\ IF CachedKeys(wordCache[t], term) # {}
       THEN LET cachedKey == CHOOSE k \in CachedKeys(wordCache[t], term) : TRUE
                cachedData == wordCache[t][cachedKey]
            IN IF IsSome(currentWord[t]) /\ Lower(Val(currentWord[t]).word) = Lower(term)
               THEN /\ UNCHANGED SearchVars
                    /\ last' = Note("handleSearch", t,
                                     [term |-> term, path |-> "shown",
                                      before |-> Snap(t), shown |-> currentWord[t]])
               ELSE /\ previousWord' = [previousWord EXCEPT ![t] = currentWord[t]]
                    /\ currentWord' = [currentWord EXCEPT ![t] = None]
                    /\ lookups' = [lookups EXCEPT ![t] = Superseded(@, term) \cup
                                     {[kind |-> "hit", term |-> term,
                                       data |-> Some(cachedData), prev |-> None,
                                       shown |-> currentWord[t],
                                       newer |-> None]}]
                    /\ UNCHANGED << loading, error, reviewCandidate >>
                    /\ last' = Note("handleSearch", t,
                                     [term |-> term, path |-> "hit", before |-> Snap(t)])
       ELSE /\ \E candidate \in ReviewCandidates(favorites[t], wordCache[t]) :
                 reviewCandidate' = [reviewCandidate EXCEPT ![t] = candidate]
            /\ loading' = [loading EXCEPT ![t] = TRUE]
            /\ error' = [error EXCEPT ![t] = FALSE]
            /\ previousWord' = [previousWord EXCEPT ![t] = currentWord[t]]
            /\ currentWord' = [currentWord EXCEPT ![t] = None]
            /\ lookups' = [lookups EXCEPT ![t] = Superseded(@, term) \cup
                             {[kind |-> "miss", term |-> term, data |-> None,
                               prev |-> previousWord[t],
                               shown |-> currentWord[t],
                               newer |-> None]}]
            /\ last' = Note("handleSearch", t,
                             [term |-> term, path |-> "miss", before |-> Snap(t)])
    /\ UNCHANGED << SnapshotVars, user, isSyncing, fetches, saveTimer, saves,
                    SharedVars, ClockVars >>
    /\ UNCHANGED << download, cards >>
    /\ Step

HitShown(t, lk) ==
    \* the 50 ms timeout of the cache-hit path, App.tsx:329-335
    /\ lk \in lookups[t]
    /\ lk.kind = "hit"
    /\ lookups' = [lookups EXCEPT ![t] = @ \ {lk}]
    /\ currentWord' = [currentWord EXCEPT ![t] = lk.data]
    /\ previousWord' = [previousWord EXCEPT ![t] = None]
    /\ history' = [history EXCEPT ![t] = PushHistory(@, Val(lk.data).word)]
    /\ last' = Note("hitShown", t, [term |-> lk.term, word |-> Val(lk.data).word,
                                     before |-> Snap(t), newer |-> lk.newer])
    /\ UNCHANGED << favorites, wordCache, settings, studyStats, isSyncing, loading,
                    error, reviewCandidate, fetches, saves, SharedVars, ClockVars >>
    /\ UNCHANGED user
    /\ ArmSave(t, TRUE)
    /\ UNCHANGED << download, cards >>
    /\ Step

LookupDone(t, lk, w) ==
    \* fetchWordData resolved with the profile of w, App.tsx:350-355, 360-363
    /\ lk \in lookups[t]
    /\ lk.kind = "miss"
    /\ w \in LookupResults(lk.term)
    /\ LET data == FetchedEntry(w, now)
       IN /\ currentWord' = [currentWord EXCEPT ![t] = Some(data)]
          /\ wordCache' = [wordCache EXCEPT ![t] = PutCache(@, data.word, data)]
          /\ history' = [history EXCEPT ![t] = PushHistory(@, data.word)]
          /\ last' = Note("lookupDone", t,
                          [term |-> lk.term, word |-> w,
                           known |-> w \in DOMAIN wordCache[t],
                           before |-> Snap(t), newer |-> lk.newer])
    /\ lookups' = [lookups EXCEPT ![t] = @ \ {lk}]
    /\ previousWord' = [previousWord EXCEPT ![t] = None]
    /\ loading' = [loading EXCEPT ![t] = FALSE]
    /\ reviewCandidate' = [reviewCandidate EXCEPT ![t] = None]
    /\ UNCHANGED << favorites, settings, studyStats, isSyncing, error, fetches, saves,
                    SharedVars, ClockVars >>
    /\ UNCHANGED user
    /\ ArmSave(t, TRUE)
    /\ UNCHANGED << download, cards >>
    /\ Step

LookupFailed(t, lk) ==
    \* fetchWordData rejected, App.tsx:356-363; previousWord is the value of
    \* the render that called handleSearch
    /\ lk \in lookups[t]
    /\ lk.kind = "miss"
    /\ lookups' = [lookups EXCEPT ![t] = @ \ {lk}]
    /\ error' = [error EXCEPT ![t] = TRUE]
    /\ currentWord' = [currentWord EXCEPT ![t] = lk.prev]
    /\ previousWord' = [previousWord EXCEPT ![t] = None]
    /\ loading' = [loading EXCEPT ![t] = FALSE]
    /\ reviewCandidate' = [reviewCandidate EXCEPT ![t] = None]
    /\ last' = Note("lookupFailed", t,
                    [term |-> lk.term, shownBefore |-> lk.shown, before |-> Snap(t),
                     newer |-> lk.newer])
    /\ UNCHANGED << SnapshotVars, user, isSyncing, fetches, saveTimer, saves,
                    SharedVars, ClockVars >>
    /\ UNCHANGED << download, cards >>
    /\ Step

HandleRandomWord(t) ==
    \* handleRandomWord up to its await, App.tsx:366-375.  The call keeps the
    \* handleSearch of its render, whose favorites, wordCache, currentWord and
    \* previousWord are those of that render.
    /\ \E candidate \in ReviewCandidates(favorites[t], wordCache[t]) :
          reviewCandidate' = [reviewCandidate EXCEPT ![t] = candidate]
    /\ loading' = [loading EXCEPT ![t] = TRUE]
    /\ currentWord' = [currentWord EXCEPT ![t] = None]
    /\ lookups' = [lookups EXCEPT ![t] = @ \cup
                     {[kind |-> "random", term |-> "", data |-> None,
                       prev |-> previousWord[t], shown |-> currentWord[t],
                       newer |-> None, favs |-> favorites[t], cache |-> wordCache[t]]}]
    /\ last' = Note("handleRandomWord", t, << >>)
    /\ UNCHANGED << SnapshotVars, user, isSyncing, previousWord, error, fetches,
                    saveTimer, saves, SharedVars, ClockVars >>
    /\ UNCHANGED << download, cards >>
    /\ Step

RandomWordDone(t, lk, word) ==
    \* fetchRandomGREWord resolved with word, then handleSearch(word) of the
    \* render that called handleRandomWord up to its first suspension,
    \* App.tsx:375-376 and 314-348
    /\ lk \in lookups[t]
    /\ lk.kind = "random"
    /\ IF word = ""
       THEN \* if (!cleanTerm) return
            /\ lookups' = [lookups EXCEPT ![t] = @ \ {lk}]
            /\ UNCHANGED << currentWord, previousWord, loading, error, reviewCandidate >>
            /\ last' = Note("randomWordDone", t, [word |-> word, path |-> "empty"])
       ELSE IF CachedKeys(lk.cache, word) # {}
       THEN LET cachedKey == CHOOSE k \in CachedKeys(lk.cache, word) : TRUE
                cachedData == lk.cache[cachedKey]
            IN IF IsSome(lk.shown) /\ Lower(Val(lk.shown).word) = Lower(word)
               THEN /\ lookups' = [lookups EXCEPT ![t] = @ \ {lk}]
                    /\ UNCHANGED << currentWord, previousWord, loading, error,
                                    reviewCandidate >>
                    /\ last' = Note("randomWordDone", t,
                                     [word |-> word, path |-> "shown"])
               ELSE /\ previousWord' = [previousWord EXCEPT ![t] = lk.shown]
                    /\ currentWord' = [currentWord EXCEPT ![t] = None]
                    /\ lookups' = [lookups EXCEPT ![t] = (@ \ {lk}) \cup
                                     {[kind |-> "hit", term |-> word,
                                       data |-> Some(cachedData), prev |-> None,
                                       shown |-> currentWord[t],
                                       newer |-> None]}]
                    /\ UNCHANGED << loading, error, reviewCandidate >>
                    /\ last' = Note("randomWordDone", t, [word |-> word, path |-> "hit"])
       ELSE /\ \E candidate \in ReviewCandidates(lk.favs, lk.cache) :
                 reviewCandidate' = [reviewCandidate EXCEPT ![t] = candidate]
            /\ loading' = [loading EXCEPT ![t] = TRUE]
            /\ error' = [error EXCEPT ![t] = FALSE]
            /\ previousWord' = [previousWord EXCEPT ![t] = lk.shown]
            /\ currentWord' = [currentWord EXCEPT ![t] = None]
            /\ lookups' = [lookups EXCEPT ![t] = (@ \ {lk}) \cup
                             {[kind |-> "miss", term |-> word, data |-> None,
                               prev |-> lk.prev,
                               shown |-> currentWord[t],
                               newer |-> None]}]
            /\ last' = Note("randomWordDone", t, [word |-> word, path |-> "miss"])
    /\ UNCHANGED << SnapshotVars, user, isSyncing, fetches, saveTimer, saves,
                    SharedVars, ClockVars >>
    /\ UNCHANGED << download, cards >>
    /\ Step

RandomWordFailed(t, lk) ==
    \* fetchRandomGREWord rejected: the catch of handleRandomWord, App.tsx:377-381
    /\ lk \in lookups[t]
    /\ lk.kind = "random"
    /\ lookups' = [lookups EXCEPT ![t] = @ \ {lk}]
    /\ error' = [error EXCEPT ![t] = TRUE]
    /\ loading' = [loading EXCEPT ![t] = FALSE]
    /\ reviewCandidate' = [reviewCandidate EXCEPT ![t] = None]
    /\ last' = Note("randomWordFailed", t, << >>)
    /\ UNCHANGED << SnapshotVars, user, isSyncing, currentWord, previousWord, fetches,
                    saveTimer, saves, SharedVars, ClockVars >>
    /\ UNCHANGED << download, cards >>
    /\ Step

DismissError(t) ==
    \* "Return Home" of the error view: setError(null), App.tsx:702
    /\ error[t]
    /\ error' = [error EXCEPT ![t] = FALSE]
    /\ last' = Note("dismissError", t, << >>)
    /\ UNCHANGED << SnapshotVars, user, isSyncing, currentWord, previousWord, loading,
                    reviewCandidate, lookups, fetches, saveTimer, saves, SharedVars,
                    ClockVars >>
    /\ UNCHANGED << download, cards >>
    /\ Step


----------------------------------------------------------------------------
(* Authentication *)

LoginFetch == [merge |-> TRUE, origin |-> "login"]
EventFetch == [merge |-> FALSE, origin |-> "event"]

RegisteredData(day) ==
    \* the data register stores for a new user, part_004:83-89
    MkSnapshot(<< >>, << >>, DefaultSettings, EmptyCache,
               [streakDays |-> 1, lastStudyDate |-> day])

SignIn(t, op) ==
    \* authService.login / register from their delay on, then
    \* handleLoginSuccess and performCloudSync up to its await
    /\ user[t] = None
    /\ session' = Some("u1")
    /\ Broadcast(t, "LOGIN")
    /\ user' = [user EXCEPT ![t] = Some("u1")]
    /\ isSyncing' = [isSyncing EXCEPT ![t] = TRUE]
    /\ fetches' = [fetches EXCEPT ![t] = Append(@, Started(LoginFetch, now))]
    /\ last' = Note(op, t, << >>)
    /\ UNCHANGED << SnapshotVars, SearchVars, saves, ClockVars >>
    /\ ArmSave(t, FALSE)
    /\ UNCHANGED << download, cards >>
    /\ Step

Login(t) ==
    \* AuthModal.handleSubmit with an account: part_004:47-63, App.tsx:303-306.
    \* db.users is not modelled: the account exists, with or without userData.
    /\ UNCHANGED cloud
    /\ SignIn(t, "login")

Register(t) ==
    \* AuthModal.handleSubmit without one: part_004:66-100, App.tsx:303-306
    /\ cloud = None
    /\ cloud' = Some(RegisteredData(today))
    /\ SignIn(t, "register")

Logout(t) ==
    \* handleLogout from the delay of authService.logout on, App.tsx:308-312
    /\ IsSome(user[t])
    /\ session' = None
    /\ Broadcast(t, "LOGOUT")
    /\ user' = [user EXCEPT ![t] = None]
    /\ last' = Note("logout", t, << >>)
    /\ UNCHANGED << SnapshotVars, isSyncing, SearchVars, fetches, saves, cloud,
                    ClockVars >>
    /\ ArmSave(t, FALSE)
    /\ UNCHANGED << download, cards >>
    /\ Step

----------------------------------------------------------------------------
(* Cloud synchronisation *)

OnSyncEvent(t) ==
    \* the sync listener up to its await, App.tsx:173-185
    /\ inbox[t] # << >>
    /\ inbox' = [inbox EXCEPT ![t] = Tail(@)]
    /\ LET event == Head(inbox[t])
       IN /\ IF event = "LOGOUT"
             THEN /\ user' = [user EXCEPT ![t] = None]
                  /\ UNCHANGED << isSyncing, fetches >>
             ELSE IF IsSome(session)
                  THEN /\ user' = [user EXCEPT ![t] = session]
                       /\ isSyncing' = [isSyncing EXCEPT ![t] = TRUE]
                       /\ fetches' = [fetches EXCEPT ![t] = Append(@, Started(EventFetch, now))]
                  ELSE UNCHANGED << user, isSyncing, fetches >>
          /\ last' = Note("onSyncEvent", t, [event |-> event])
    /\ UNCHANGED << SnapshotVars, SearchVars, saves, cloud, session, ClockVars >>
    /\ ArmSave(t, FALSE)
    /\ UNCHANGED << download, cards >>
    /\ Step

SyncedAlwaysMerging(f, local, cloudData, day) ==
    \* the listener running the updaters of performCloudSync
    MergeOnLogin(local, cloudData, day)

Synced(f, local, cloudData, day) ==
    \* what a settled fetchUserData makes of the local snapshot:
    \* performCloudSync (App.tsx:285-297) or the listener (App.tsx:186-195)
    IF f.merge THEN MergeOnLogin(local, cloudData, day)
    ELSE ReplaceOnSync(local, cloudData, day)

FetchDone(t) ==
    \* The oldest fetchUserData resolved (every call waits the same delay and
    \* reads the database after it, part_004:131-135), with the continuation
    \* of its caller.
    /\ fetches[t] # << >>
    /\ fetches' = [fetches EXCEPT ![t] = Tail(@)]
    /\ isSyncing' = [isSyncing EXCEPT ![t] = FALSE]
    /\ last' = Note("fetchDone", t,
                    [merge |-> Head(fetches[t]).merge,
                     origin |-> Head(fetches[t]).origin,
                     remote |-> cloud, before |-> Snap(t),
                     repeated |-> /\ last.op = "fetchDone"
                                  /\ last.tab = t
                                  /\ last.info.merge = Head(fetches[t]).merge])
    /\ UNCHANGED << user, SearchVars, saves, SharedVars, ClockVars >>
    /\ IF IsSome(cloud)
       THEN /\ SetSnapshot(t, Synced(Head(fetches[t]), Snap(t), Val(cloud), today))
            /\ ArmSave(t, TRUE)
       ELSE UNCHANGED << SnapshotVars, saveTimer >>
    /\ UNCHANGED << download, cards >>
    /\ Step

TimeoutsInOrder(pending, tm) ==
    \* Timeouts of one window run in order: the 400 ms delay of a fetch that
    \* began no later than the 2000 ms timeout was set ends before that
    \* timeout runs (part_004:132, App.tsx:163-167).
    \A i \in DOMAIN pending : pending[i].since > tm.deadline - Debounce

SaveFire(t, tm) ==
    \* the timeout callback of the cloud persist effect with saveUserData up
    \* to its delay, App.tsx:163-167, part_004:117-124
    /\ tm \in saveTimer[t]
    /\ now >= tm.deadline
    /\ TimeoutsInOrder(fetches[t], tm)
    /\ saveTimer' = [saveTimer EXCEPT ![t] = @ \ {tm}]
    /\ isSyncing' = [isSyncing EXCEPT ![t] = TRUE]
    /\ cloud' = Some(tm.data)
    /\ Broadcast(t, "DATA_UPDATE")
    /\ saves' = [saves EXCEPT ![t] = @ + 1]
    /\ last' = Note("saveFire", t,
                    [at |-> now, quietSince |-> changedAt[t], written |-> tm.data,
                     snapshot |-> Snap(t), user |-> user[t], armed |-> saveTimer[t]])
    /\ UNCHANGED << SnapshotVars, user, SearchVars, fetches, session, ClockVars >>
    /\ UNCHANGED << download, cards >>
    /\ Step

FetchFailed(t) ==
    \* The oldest fetchUserData rejected (getCloudDB throws, part_004:133):
    \* the try of its caller has no catch, its finally runs, App.tsx:196-198
    \* and 298-300.
    /\ fetches[t] # << >>
    /\ fetches' = [fetches EXCEPT ![t] = Tail(@)]
    /\ isSyncing' = [isSyncing EXCEPT ![t] = FALSE]
    /\ last' = Note("fetchFailed", t,
                    [origin |-> Head(fetches[t]).origin, before |-> Snap(t),
                     syncing |-> isSyncing[t]])
    /\ UNCHANGED << SnapshotVars, user, SearchVars, saveTimer, saves, SharedVars,
                    ClockVars >>
    /\ UNCHANGED << download, cards >>
    /\ Step

SaveFailed(t, tm) ==
    \* the timeout callback of the cloud persist effect when saveUserData
    \* rejects before it has written (getCloudDB or saveCloudDB throws,
    \* part_004:119-121): setIsSyncing(true) has run, the then-callback never
    \* does, and the promise has no catch, App.tsx:163-167
    /\ tm \in saveTimer[t]
    /\ now >= tm.deadline
    /\ TimeoutsInOrder(fetches[t], tm)
    /\ saveTimer' = [saveTimer EXCEPT ![t] = @ \ {tm}]
    /\ isSyncing' = [isSyncing EXCEPT ![t] = TRUE]
    /\ last' = Note("saveFailed", t, [before |-> Snap(t), syncing |-> isSyncing[t]])
    /\ UNCHANGED << SnapshotVars, user, SearchVars, fetches, saves, SharedVars,
                    ClockVars >>
    /\ UNCHANGED << download, cards >>
    /\ Step

SaveDone(t) ==
    \* saveUserData resolved: .then(() => setIsSyncing(false)), App.tsx:166
    /\ saves[t] > 0
    /\ saves' = [saves EXCEPT ![t] = @ - 1]
    /\ isSyncing' = [isSyncing EXCEPT ![t] = FALSE]
    /\ last' = Note("saveDone", t, << >>)
    /\ UNCHANGED << SnapshotVars, user, SearchVars, fetches, saveTimer, SharedVars,
                    ClockVars >>
    /\ UNCHANGED << download, cards >>
    /\ Step

Tick ==
    \* a second passes
    /\ now' = now + 1
    /\ UNCHANGED << SnapshotVars, user, isSyncing, SearchVars, fetches, saveTimer,
                    saves, SharedVars, today, last >>
    /\ UNCHANGED << download, cards >>
    /\ Step

----------------------------------------------------------------------------
(* Specification *)

StudyStep(t, words, actions, terms) ==
    \* the handlers of the study views, their inputs drawn from the given sets
    \/ \E w \in words, a \in actions : UpdateWordStats(t, w, a)
    \/ ToggleFavoriteCurrent(t)
    \/ \E i \in 1..Cardinality(Words) : RemoveFromWordBook(t, i)
    \/ \E i \in 1..Cardinality(Words) : ShowFavorite(t, i)
    \/ \E term \in terms : HandleSearch(t, term)
    \/ \E lk \in lookups[t] : HitShown(t, lk)
    \/ \E lk \in lookups[t], w \in Words : LookupDone(t, lk, w)
    \/ \E lk \in lookups[t] : LookupFailed(t, lk)
    \/ DismissError(t)
    \/ ToggleTheme(t)

SignStep(t) ==
    \* the account handlers
    \/ Login(t)
    \/ Register(t)
    \/ Logout(t)

CloudStep(t) ==
    \* the callbacks of the cloud service: events, fetched data, save timers
    \/ OnSyncEvent(t)
    \/ FetchDone(t)
    \/ \E tm \in saveTimer[t] : SaveFire(t, tm)
    \/ SaveDone(t)

SyncStep(t) == SignStep(t) \/ CloudStep(t)

Next ==
    \* tab 1 studies and signs in and out; tab 2 stays open and listens
    \/ StudyStep(1, {"abate"}, {"review"}, {"abate", "abaet"})
    \/ SignStep(1)
    \/ \E t \in Tabs : CloudStep(t)
    \/ Tick

Spec == Init /\ [][Next]_vars

(* The study handlers alone, in an anonymous session *)

InitStudy == InitWith(LocalPool, {None}, {None}, MaxStudySteps)

NextStudy == StudyStep(1, {"abate", "zealous"}, Actions, {"abate", "zealous", "Abate", "abaet"})

SpecStudy == InitStudy /\ [][NextStudy]_vars

(* Authentication and synchronisation alone, in two tabs *)

InitSync == InitWith({AbateLocal}, CloudPool, {None, Some("u1")}, MaxSyncSteps)

NextSync ==
    \/ \E t \in Tabs : SyncStep(t)
    \/ Tick

SpecSync == InitSync /\ [][NextSync]_vars


(* The mastery engine alone, on one stored word whose statistics are drawn *)
(* from MasteryStarts                                                      *)

MasteryStarts ==
    {None} \cup {Some(MkStats(m, m \div ReviewGain, 0, 0, 0)) : m \in {0, 5, 90, 95, 100}}

MasteryLocal(st, fav) ==
    LET e == MkEntry("abate", 0, st)
    IN MkSnapshot(IF fav THEN << e >> ELSE << >>, << "abate" >>, DefaultSettings,
                  [w \in {"abate"} |-> e], DefaultStudyStats)

InitMastery ==
    InitWith({MasteryLocal(st, fav) : st \in MasteryStarts, fav \in BOOLEAN},
             {None}, {None}, MaxMasterySteps)

NextMastery ==
    \/ \E a \in Actions : UpdateWordStats(1, "abate", a)
    \/ Tick

SpecMastery == InitMastery /\ [][NextMastery]_vars

(* The review candidate selector alone, on pools of up to MaxPool words    *)
(* whose statistics follow a few arithmetic patterns                       *)

PoolNames ==
    << "w01", "w02", "w03", "w04", "w05", "w06", "w07", "w08",
       "w09", "w10", "w11", "w12", "w13", "w14", "w15", "w16" >>

PoolEntry(i, a, b, m, c) ==
    \* the i-th word of a pool: no statistics on every fourth word
    MkEntry(PoolNames[i], 0,
            IF i % 4 = 0 THEN None
            ELSE Some(MkStats(((i * a + b) % m) * ReviewGain, 1, 0, 0, (i * c) % 3)))

PoolLocal(n, k, a, b, m, c) ==
    \* n cached words, the first k of them favorited
    MkSnapshot([i \in 1..Min(k, n) |-> PoolEntry(i, a, b, m, c)], << >>, DefaultSettings,
               [w \in {PoolNames[i] : i \in 1..n} |->
                   PoolEntry(CHOOSE i \in 1..n : PoolNames[i] = w, a, b, m, c)],
               DefaultStudyStats)

InitSelector ==
    InitWith({PoolLocal(n, k, a, b, m, c) :
                 n \in 0..MaxPool, k \in {0, 3, MaxPool},
                 a \in {1, 3}, b \in {0, 1}, m \in {1, 2, 5}, c \in {0, 1}},
             {None}, {None}, MaxSelectorSteps)

NextSelector ==
    \/ HandleSearch(1, "abaet")
    \/ \E lk \in lookups[1] : LookupFailed(1, lk)

SpecSelector == InitSelector /\ [][NextSelector]_vars

(* The streak tracker alone: session starts and logins on the days        *)
(* 1..MaxDay, with stored study statistics of any date                     *)

StreakCells ==
    \* lastStudyDate: none, a day up to the day after MaxDay, or a string
    \* that is no date (99)
    {[streakDays |-> n, lastStudyDate |-> d] :
        n \in {0, 1, 3}, d \in (0..(MaxDay + 1)) \cup {99}}

StreakLocal(st) ==
    \* a device whose settings have the serifFont field
    MkSnapshot(<< >>, << >>, [darkMode |-> FALSE, serifFont |-> TRUE], EmptyCache, st)

StreakRemote(st) ==
    \* an account saved with the darkMode setting alone
    MkSnapshot(<< >>, << >>, [darkMode |-> TRUE], EmptyCache, st)

InitStreak ==
    InitOn({StreakLocal(st) : st \in StreakCells},
           {None} \cup {Some(StreakRemote(st)) : st \in {c \in StreakCells : c.streakDays = 3}},
           {None, Some("u1")}, MaxStreakSteps, 1..MaxDay)

NextStreak ==
    \/ Login(1)
    \/ Logout(1)
    \/ FetchDone(1)

SpecStreak == InitStreak /\ [][NextStreak]_vars

(* The login merge of long histories: a device with up to HistoryCap      *)
(* searches logs in to an account that holds up to MaxRemoteHistory        *)
(* searches made on another device, before or after the local ones         *)

LocalNames == PoolNames \o << "w17", "w18", "w19", "w20" >>

RemoteNames == << "r01", "r02", "r03", "r04", "r05" >>

Searched(names, n, since) ==
    \* the snapshot after searching names[1..n] in turn, from time since + 1
    \* on: history most recent first, each word cached with its fetch time
    MkSnapshot(<< >>, [i \in 1..n |-> names[n + 1 - i]], DefaultSettings,
               [w \in {names[i] : i \in 1..n} |->
                   FetchedEntry(w, since + (CHOOSE i \in 1..n : names[i] = w))],
               DefaultStudyStats)

InitHistory ==
    InitWith({Searched(LocalNames, n, HistoryCap) :
                 n \in {0, 1, HistoryCap - 1, HistoryCap}},
             {Some(Searched(names, m, since)) :
                 names \in {RemoteNames, LocalNames},
                 m \in 0..MaxRemoteHistory,
                 since \in {0, 2 * HistoryCap}},
             {None}, MaxHistorySteps)

NextHistory ==
    \/ Login(1)
    \/ Logout(1)
    \/ FetchDone(1)

SpecHistory == InitHistory /\ [][NextHistory]_vars

(* Export and import alone.  The files offered to the import are the file  *)
(* exported last and the files of ImportFiles.                             *)

OnlyKeys(data, names) ==
    \* the backup of data cut down to the keys in names
    [kind |-> "object",
     keys |-> [k \in DOMAIN NoKeys |->
                 IF k \in names THEN ExportFile(data).keys[k] ELSE None]]

GarbledFile == [kind |-> "garbled", keys |-> NoKeys]

IllShapedFile ==
    \* { "favorites": [abate], "studyStats": { "junk": true } }
    [kind |-> "object",
     keys |-> [NoKeys EXCEPT !.favorites = Some(<< Abate80 >>),
                             !.studyStats = Some([junk |-> TRUE])]]

ImportFiles ==
    { ExportFile(RemoteBoth),
      OnlyKeys(RemoteBoth, {"favorites", "wordCache"}),
      OnlyKeys(RemoteBoth, {"settings"}),
      OnlyKeys(EmptyLocal, {"favorites", "history"}),
      OnlyKeys(EmptyLocal, {}),
      GarbledFile,
      IllShapedFile }

Downloaded == IF IsSome(download) THEN {Val(download).file} ELSE {}

InitImport == InitWith(LocalPool, {None}, {None}, MaxImportSteps)

NextImport ==
    \/ \E t \in Tabs : HandleExportData(t)
    \/ \E t \in Tabs :
          \E file \in ImportFiles \cup Downloaded : HandleImportData(t, file)

SpecImport == InitImport /\ [][NextImport]_vars

(* A login in one of two anonymous tabs that hold the same local data, with *)
(* an account that has remote data: the login, the broadcasts, the fetches  *)
(* and the debounced saves that follow, and no other user action.           *)

InitLogin ==
    InitOf({AbateLocal}, {Some(RemoteBoth)}, {None}, MaxLoginSteps, {2}, {LoginAudit})

NextLogin ==
    \/ Login(1)
    \/ \E t \in Tabs : CloudStep(t)
    \/ Tick

SpecLogin == InitLogin /\ [][NextLogin]_vars

(* Synchronisation with a cloud database that may fail to be read or       *)
(* written, in two tabs of a logged-in session                             *)

InitOutage ==
    InitWith({AbateLocal}, {Some(RemoteBoth)}, {Some("u1")}, MaxOutageSteps)

NextOutage ==
    \/ \E t \in Tabs : CloudStep(t)
    \/ \E t \in Tabs : FetchFailed(t)
    \/ \E t \in Tabs : \E tm \in saveTimer[t] : SaveFailed(t, tm)
    \/ Tick

SpecOutage == InitOutage /\ [][NextOutage]_vars

(* The word card of an anonymous tab while the user logs in in another tab *)

InitCard == InitWith({AbateLocal}, {Some(RemoteBoth)}, {None}, MaxCardSteps)

NextCard ==
    \/ HandleSearch(1, "terse")
    \/ \E lk \in lookups[1] : HitShown(1, lk)
    \/ ToggleFavoriteCurrent(1)
    \/ UpdateWordStats(1, "terse", "review")
    \/ Login(2)
    \/ OnSyncEvent(1)
    \/ \E t \in Tabs : FetchDone(t)

SpecCard == InitCard /\ [][NextCard]_vars

(* The random-word button and the search box of one anonymous tab *)

RandomWords == {"", "abate", "zealous"}

InitRandom == InitWith(LocalPool, {None}, {None}, MaxRandomSteps)

NextRandom ==
    \/ HandleRandomWord(1)
    \/ \E lk \in lookups[1], word \in RandomWords : RandomWordDone(1, lk, word)
    \/ \E lk \in lookups[1] : RandomWordFailed(1, lk)
    \/ HandleSearch(1, "abaet")
    \/ \E lk \in lookups[1] : HitShown(1, lk)
    \/ \E lk \in lookups[1], w \in Words : LookupDone(1, lk, w)
    \/ \E lk \in lookups[1] : LookupFailed(1, lk)

SpecRandom == InitRandom /\ [][NextRandom]_vars

(* A flashcard session over one or two favorites, in an anonymous tab *)

InitFlashcards == InitWith({AbateLocal, RemoteBoth}, {None}, {None}, MaxFlashcardSteps)

NextFlashcards ==
    \/ OpenFlashcards(1)
    \/ CloseFlashcards(1)
    \/ HandleFlip(1)
    \/ \E by \in {1, -1} : HandleMove(1, by)
    \/ MoveTimeout(1)

SpecFlashcards == InitFlashcards /\ [][NextFlashcards]_vars

----------------------------------------------------------------------------
(* Properties of the mastery engine *)

StatsFields(entry) ==
    \* the statistics an entry reports: absent statistics read as zero
    StatsOrDefault(entry.stats)

UpdatedHere == last.op = "updateWordStats" /\ last.info.applied

\* C1: in every reachable state, a word present in both wordCache and
\* favorites carries identical statistics in the two collections.
StatsAgreeEverywhere ==
    \A t \in Tabs : \A i \in 1..Len(favorites[t]) :
        favorites[t][i].word \in DOMAIN wordCache[t]
            => StatsFields(favorites[t][i])
                 = StatsFields(wordCache[t][favorites[t][i].word])

\* C2: right after updateWordStats on a word present in both collections,
\* the two entries report the same masteryScore, reviews and lastReviewed,
\* whatever they held before.
DualWriteAfterUpdate ==
    UpdatedHere =>
        LET t == last.tab
            w == last.info.word
        IN \A i \in 1..Len(favorites[t]) :
              favorites[t][i].word = w =>
                  LET f == StatsFields(favorites[t][i])
                      c == StatsFields(wordCache[t][w])
                  IN /\ f.masteryScore = c.masteryScore
                     /\ f.reviews = c.reviews
                     /\ f.lastReviewed = c.lastReviewed

DualWriteHealsDivergence ==
    \* an update reached a word whose two entries disagreed before it
    /\ UpdatedHere
    /\ IsSome(last.info.favBefore)
    /\ StatsFields(Val(last.info.favBefore)) # StatsFields(Val(last.info.cacheBefore))
    /\ HasWord(favorites[last.tab], last.info.word)

\* C3: the masteryScore of every stored word stays within [0, 100]; the
\* update clamps at both ends.
MasteryInRange ==
    \A t \in Tabs :
        /\ \A w \in DOMAIN wordCache[t] :
              StatsFields(wordCache[t][w]).masteryScore \in 0..MaxMastery
        /\ \A i \in 1..Len(favorites[t]) :
              StatsFields(favorites[t][i]).masteryScore \in 0..MaxMastery

MasteryClamped ==
    \* a correct answer on a word whose score plus the gain exceeds the top
    /\ UpdatedHere
    /\ last.info.action = "correct"
    /\ StatsFields(Val(last.info.cacheBefore)).masteryScore + CorrectGain > MaxMastery
    /\ StatsFields(wordCache[last.tab][last.info.word]).masteryScore = MaxMastery

ReferenceApply(s, a, t) ==
    \* the reference transition: absent statistics are all zero; review
    \* adds 5, correct adds 15, incorrect takes 10, inside [0, 100]; every
    \* action counts one review and stamps the time
    LET z == IF IsSome(s) THEN Val(s)
             ELSE [masteryScore |-> 0, reviews |-> 0, correctCount |-> 0,
                   incorrectCount |-> 0, lastReviewed |-> 0]
        raised(d) == IF z.masteryScore + d > 100 THEN 100 ELSE z.masteryScore + d
        lowered(d) == IF z.masteryScore - d < 0 THEN 0 ELSE z.masteryScore - d
    IN [masteryScore   |-> IF a = "review" THEN raised(5)
                           ELSE IF a = "correct" THEN raised(15)
                           ELSE lowered(10),
        reviews        |-> z.reviews + 1,
        correctCount   |-> z.correctCount + (IF a = "correct" THEN 1 ELSE 0),
        incorrectCount |-> z.incorrectCount + (IF a = "incorrect" THEN 1 ELSE 0),
        lastReviewed   |-> t]

FreshBefore(info) ==
    \* the word had no statistics, or all-zero ones, before the step
    StatsFields(Val(info.cacheBefore)) = ZeroStats

\* C4: updateWordStats stores exactly the reference transition of the
\* cached statistics: from absent statistics a review, a correct or an
\* incorrect answer gives 5, 15 or 0, and a correct answer followed by an
\* incorrect one on a fresh word gives mastery 5 with 2 reviews.
UpdateMatchesReference ==
    UpdatedHere =>
        LET info == last.info
            got == wordCache[last.tab][info.word].stats
        IN /\ got = Some(ReferenceApply(info.cacheBefore[1].stats, info.action, info.at))
           /\ Val(info.cacheBefore).stats = None =>
                 Val(got).masteryScore =
                     (CASE info.action = "review" -> 5
                        [] info.action = "correct" -> 15
                        [] OTHER -> 0)
           /\ ( /\ info.action = "incorrect"
                /\ IsSome(info.prior)
                /\ Val(info.prior).action = "correct"
                /\ FreshBefore(Val(info.prior)) )
              => Val(got).masteryScore = 5 /\ Val(got).reviews = 2

CorrectThenIncorrect ==
    \* a word without statistics answered correctly, then incorrectly
    /\ UpdatedHere
    /\ last.info.action = "incorrect"
    /\ IsSome(last.info.prior)
    /\ Val(last.info.prior).action = "correct"
    /\ Val(Val(last.info.prior).cacheBefore).stats = None
    /\ Val(wordCache[last.tab][last.info.word].stats).masteryScore = 5
    /\ Val(wordCache[last.tab][last.info.word].stats).reviews = 2

----------------------------------------------------------------------------
(* Properties of the sync merge engine *)

FetchedHere == last.op = "fetchDone" /\ IsSome(last.info.remote)

MergedHere == FetchedHere /\ last.info.merge

KeysOf(items) == {items[i].word : i \in 1..Len(items)}

\* C5: after the login merge of local favorites L with remote favorites R,
\* favorites holds every word key of L and of R exactly once and no other
\* key, and a key of both carries the remote entry; local [abate:20] with
\* remote [abate:80, zealous:10] gives two entries, abate at 80.
MergedFavoritesAreUnion ==
    MergedHere =>
        LET L == last.info.before.favorites
            R == Val(last.info.remote).favorites
            F == favorites[last.tab]
        IN /\ KeysOf(F) = KeysOf(L) \cup KeysOf(R)
           /\ Len(F) = Cardinality(KeysOf(F))
           /\ \A i \in 1..Len(F) :
                 IF F[i].word \in KeysOf(R)
                 THEN \E j \in 1..Len(R) : R[j] = F[i]
                 ELSE \E j \in 1..Len(L) : L[j] = F[i]
           /\ (L = << Abate20 >> /\ R = << Abate80, Zealous10 >>)
                 => /\ Len(F) = 2
                    /\ \E i \in 1..2 : /\ F[i].word = "abate"
                                       /\ MasteryOf(F[i]) = 80

MergedSharedFavorite ==
    \* local [abate:20] merged with remote [abate:80, zealous:10]
    /\ MergedHere
    /\ last.info.origin = "login"
    /\ last.info.before.favorites = << Abate20 >>
    /\ Val(last.info.remote).favorites = << Abate80, Zealous10 >>
    /\ KeysOf(favorites[last.tab]) = {"abate", "zealous"}

\* C6: after the login merge, the keys of wordCache are the union of the
\* local and the remote keys; a key of both maps to the remote entry and a
\* key of the local cache alone keeps its entry.
MergedCacheIsUnion ==
    MergedHere =>
        LET L == last.info.before.wordCache
            R == Val(last.info.remote).wordCache
            C == wordCache[last.tab]
        IN /\ DOMAIN C = DOMAIN L \cup DOMAIN R
           /\ \A k \in DOMAIN R : C[k] = R[k]
           /\ \A k \in DOMAIN L \ DOMAIN R : C[k] = L[k]

MergedSharedAndLocalKeys ==
    \* a merge with a key on both sides whose entries differ, a key of the
    \* local cache alone and a key of the remote cache alone
    /\ MergedHere
    /\ last.info.origin = "login"
    /\ LET L == last.info.before.wordCache
           R == Val(last.info.remote).wordCache
       IN /\ \E k \in DOMAIN L \cap DOMAIN R : L[k] # R[k]
          /\ DOMAIN L \ DOMAIN R # {}
          /\ DOMAIN R \ DOMAIN L # {}

SnapshotBefore == last.info.before

MergeOf(local, remote) == MergeOnLogin(local, remote, today)

ReplaceOf(local, remote) == ReplaceOnSync(local, remote, today)

KeptLocalData ==
    \* the step left the tab with the union merge of what it held and the
    \* remote snapshot, and that is not the remote snapshot alone
    /\ FetchedHere
    /\ Snap(last.tab) = MergeOf(SnapshotBefore, Val(last.info.remote))
    /\ Snap(last.tab) # ReplaceOf(SnapshotBefore, Val(last.info.remote))

\* C7 as stated: the union merge is applied only by the login handler,
\* never at a session start or reload and never on a LOGIN or DATA_UPDATE
\* broadcast.
MergeOnlyOnLogin == KeptLocalData => last.info.origin = "login"

\* C7: the union merge is applied by the login handler and by the initial
\* load of a session that already has a user; a LOGIN or DATA_UPDATE
\* broadcast never merges, it replaces.
MergeOnLoginOrStart ==
    /\ KeptLocalData => last.info.origin \in {"login", "start"}
    /\ (FetchedHere /\ last.info.origin = "event")
          => Snap(last.tab) = ReplaceOf(SnapshotBefore, Val(last.info.remote))
    /\ (FetchedHere /\ last.info.origin \in {"login", "start"})
          => Snap(last.tab) = MergeOf(SnapshotBefore, Val(last.info.remote))

BroadcastReplacedNotMerged ==
    \* a broadcast handled where merging and replacing differ
    /\ FetchedHere
    /\ last.info.origin = "event"
    /\ MergeOf(SnapshotBefore, Val(last.info.remote))
          # ReplaceOf(SnapshotBefore, Val(last.info.remote))
    /\ Snap(last.tab) = ReplaceOf(SnapshotBefore, Val(last.info.remote))

\* C8: a LOGIN or DATA_UPDATE event handled while a session user exists
\* leaves favorites, history, wordCache and settings equal to the remote
\* snapshot's, local entries the remote lacks being dropped; without a
\* remote snapshot the local state stays as it was.
EventReplacesExactly ==
    (last.op = "fetchDone" /\ last.info.origin = "event") =>
        LET t == last.tab
        IN IF IsSome(last.info.remote)
           THEN LET R == Val(last.info.remote)
                IN /\ favorites[t] = R.favorites
                   /\ history[t] = R.history
                   /\ wordCache[t] = R.wordCache
                   /\ settings[t] = R.settings
           ELSE Snap(t) = SnapshotBefore

EventDroppedLocalEntry ==
    \* the event reached a tab holding a favorite and a cached word that
    \* the remote snapshot lacks
    /\ FetchedHere
    /\ last.info.origin = "event"
    /\ KeysOf(SnapshotBefore.favorites) \ KeysOf(Val(last.info.remote).favorites) # {}
    /\ DOMAIN SnapshotBefore.wordCache \ DOMAIN Val(last.info.remote).wordCache # {}
    /\ favorites[last.tab] = Val(last.info.remote).favorites

NoDuplicates(seq) == Cardinality({seq[i] : i \in 1..Len(seq)}) = Len(seq)

\* C9: handling the same LOGIN or DATA_UPDATE event twice against an
\* unchanged remote snapshot leaves the local snapshot as handling it once
\* does, and the login merge applied twice against the same remote snapshot
\* gives what one application gives, without duplicated favorites or
\* history entries.
DuplicateSyncIsIdempotent ==
    /\ (FetchedHere /\ last.info.repeated) => Snap(last.tab) = SnapshotBefore
    /\ \A t \in Tabs :
          IsSome(cloud) =>
              LET R == Val(cloud)
                  once == ReplaceOf(Snap(t), R)
                  merged == MergeOf(Snap(t), R)
              IN /\ ReplaceOf(once, R) = once
                 /\ MergeOf(merged, R) = merged
                 /\ Len(merged.favorites) = Cardinality(KeysOf(merged.favorites))
                 /\ NoDuplicates(merged.history)

EventHandledTwice ==
    \* two fetches of the listener settled in a row on one tab, each
    \* finding the same remote snapshot
    /\ FetchedHere
    /\ last.info.repeated
    /\ last.info.origin = "event"
    /\ Snap(last.tab) = ReplaceOf(SnapshotBefore, Val(last.info.remote))

----------------------------------------------------------------------------
(* Properties of the debounced cloud save *)

\* C10: a remote save happens only with an active user and only after 2
\* seconds without a change of the snapshot; every change cancels the
\* pending save and arms a new one, so a tab has at most one pending save;
\* logout cancels it; the snapshot written is the tab's snapshot when the
\* save fires.
SaveIsDebounced ==
    /\ \A t \in Tabs :
          /\ Cardinality(saveTimer[t]) <= 1
          /\ user[t] = None => saveTimer[t] = {}
          /\ \A tm \in saveTimer[t] :
                /\ tm.deadline >= changedAt[t] + Debounce
                /\ tm.data = Snap(t)
    /\ last.op = "saveFire" =>
          /\ IsSome(last.info.user)
          /\ last.info.at - last.info.quietSince >= Debounce
          /\ last.info.written = last.info.snapshot
          /\ cloud = Some(last.info.snapshot)
    /\ last.op = "logout" => saveTimer[last.tab] = {}

SavedAfterRestart ==
    \* a save fired from a timeout that had replaced a pending one
    /\ last.op = "saveFire"
    /\ \E tm \in last.info.armed : tm.replaced
    /\ last.info.at = last.info.quietSince + Debounce

----------------------------------------------------------------------------
(* Properties of the search handlers *)

\* C11: the result of a lookup that a newer lookup has superseded is
\* discarded: it never becomes the displayed word.
LateResultDiscarded ==
    ( /\ last.op = "lookupDone"
      /\ IsSome(last.info.newer)
      /\ last.info.word \notin LookupResults(Val(last.info.newer)) )
        => ~( /\ IsSome(currentWord[last.tab])
              /\ Val(currentWord[last.tab]).word = last.info.word )

\* C12: after a failed lookup of a cache miss, the displayed word is the
\* one that was displayed right before the search started, the error is
\* set, and wordCache, favorites and history are as they were.
FailureRestoresDisplay ==
    last.op = "lookupFailed" =>
        /\ currentWord[last.tab] = last.info.shownBefore
        /\ error[last.tab]
        /\ wordCache[last.tab] = last.info.before.wordCache
        /\ favorites[last.tab] = last.info.before.favorites
        /\ history[last.tab] = last.info.before.history

----------------------------------------------------------------------------
(* Properties of the review candidate selector *)

SelectedHere == last.op = "handleSearch" /\ last.info.path = "miss"

Score(e) == IF IsSome(e.stats) THEN Val(e.stats).masteryScore ELSE 0

Reviewed(e) == IF IsSome(e.stats) THEN Val(e.stats).lastReviewed ELSE 0

Weaker(a, b) ==
    \* a comes strictly before b: lower mastery, or the same and reviewed earlier
    \/ Score(a) < Score(b)
    \/ Score(a) = Score(b) /\ Reviewed(a) < Reviewed(b)

WeakerInPool(favs, cache, e) ==
    \* how many words of the pool come strictly before e
    IF Len(favs) > 0
    THEN Cardinality({i \in 1..Len(favs) : Weaker(favs[i], e)})
    ELSE Cardinality({k \in DOMAIN cache : Weaker(cache[k], e)})

PoolSize(favs, cache) ==
    IF Len(favs) > 0 THEN Len(favs) ELSE Cardinality(DOMAIN cache)

\* C13: the word getReviewCandidate returns has fewer than 12 words of the
\* pool before it in the order by ascending mastery, then ascending
\* lastReviewed (absent statistics counting as 0).
CandidateInsideWindow ==
    (SelectedHere /\ IsSome(reviewCandidate[last.tab])) =>
        WeakerInPool(last.info.before.favorites, last.info.before.wordCache,
                     Val(reviewCandidate[last.tab])) < 12

CandidateAtWindowEdge ==
    \* a pool of more than 12 words, some of them outside the window, and a
    \* candidate with 11 words before it
    /\ SelectedHere
    /\ IsSome(reviewCandidate[last.tab])
    /\ LET F == last.info.before.favorites
           C == last.info.before.wordCache
       IN /\ PoolSize(F, C) > 12
          /\ WeakerInPool(F, C, Val(reviewCandidate[last.tab])) = 11
          /\ \E k \in DOMAIN C : WeakerInPool(F, C, C[k]) >= 12

\* C14: getReviewCandidate picks among the favorites when there are any,
\* among all cached words when there are none, and returns none exactly
\* when both are empty; favorites, wordCache and the statistics stay as
\* they were.
CandidateFromRightPool ==
    SelectedHere =>
        LET F == last.info.before.favorites
            C == last.info.before.wordCache
            c == reviewCandidate[last.tab]
        IN /\ Len(F) > 0 => IsSome(c) /\ \E i \in 1..Len(F) : F[i] = Val(c)
           /\ (Len(F) = 0 /\ DOMAIN C # {})
                 => IsSome(c) /\ \E k \in DOMAIN C : C[k] = Val(c)
           /\ c = None <=> (Len(F) = 0 /\ DOMAIN C = {})
           /\ Snap(last.tab) = last.info.before

FavoritePreferredToWeakerCached ==
    \* a favorite was picked although a cached word outside the favorites
    \* has a lower mastery than every favorite
    /\ SelectedHere
    /\ LET F == last.info.before.favorites
           C == last.info.before.wordCache
       IN /\ Len(F) > 0
          /\ \E k \in DOMAIN C :
                /\ ~HasWord(F, k)
                /\ \A i \in 1..Len(F) : Score(C[k]) < Score(F[i])
          /\ HasWord(F, Val(reviewCandidate[last.tab]).word)

----------------------------------------------------------------------------
(* Properties of the streak tracker *)

ReferenceStreak(stats, day) ==
    \* the reference: unchanged on the same day, one more on the day after
    \* the last study day, else a new streak of 1
    IF stats.lastStudyDate = day THEN stats
    ELSE IF stats.lastStudyDate \in 1..MaxDay /\ stats.lastStudyDate + 1 = day
         THEN [streakDays |-> stats.streakDays + 1, lastStudyDate |-> day]
         ELSE [streakDays |-> 1, lastStudyDate |-> day]

LoadedHere == last.op = "init"

----------------------------------------------------------------------------
(* Further properties of the login merge *)

SetOf(seq) == {seq[i] : i \in 1..Len(seq)}

SearchedAt(cache, w) ==
    \* when the word was last fetched, as its cache entry tells
    IF w \in DOMAIN cache THEN cache[w].timestamp ELSE 0

\* C16: after the login merge, history is the union of the local and the
\* remote history without duplicates, cut to at most 20 entries; when the
\* union has more than 20 entries, the 20 kept are the most recent ones.
MergedHistoryKeepsRecent ==
    MergedHere =>
        LET U == SetOf(last.info.before.history)
                    \cup SetOf(Val(last.info.remote).history)
            H == history[last.tab]
            C == wordCache[last.tab]
        IN /\ NoDuplicates(H)
           /\ SetOf(H) \subseteq U
           /\ Len(H) = IF Cardinality(U) > 20 THEN 20 ELSE Cardinality(U)
           /\ \A kept \in SetOf(H) : \A dropped \in U \ SetOf(H) :
                 SearchedAt(C, kept) >= SearchedAt(C, dropped)

\* C17: after the login merge, settings are the remote settings, no local
\* field surviving, and studyStats are the remote studyStats passed through
\* the streak check of today; the local studyStats contribute nothing.
MergedSettingsAndStatsFromRemote ==
    MergedHere =>
        LET R == Val(last.info.remote)
        IN /\ settings[last.tab] = R.settings
           /\ DOMAIN settings[last.tab] = DOMAIN R.settings
           /\ studyStats[last.tab] = ReferenceStreak(R.studyStats, today)

MergedOverLocalSettingsAndStats ==
    \* a login merge on a tab whose settings had a field the remote lacks
    \* and whose streak was longer than the one the merge leaves
    /\ MergedHere
    /\ last.info.origin = "login"
    /\ DOMAIN last.info.before.settings \ DOMAIN Val(last.info.remote).settings # {}
    /\ last.info.before.studyStats.streakDays > studyStats[last.tab].streakDays
    /\ studyStats[last.tab] # Val(last.info.remote).studyStats

----------------------------------------------------------------------------
(* Properties of export and import *)

SnapshotKeys == DOMAIN NoKeys

ImportedHere == last.op = "importData"

\* C18: an import applies exactly the top-level fields present in the file:
\* each of favorites, history, wordCache, settings, studyStats equals the
\* file's value afterwards when the file has the field, and is unchanged
\* when it has not.
ImportAppliesPresentKeys ==
    ImportedHere =>
        \A k \in SnapshotKeys :
            IF IsSome(last.info.file.keys[k])
            THEN Snap(last.tab)[k] = Val(last.info.file.keys[k])
            ELSE Snap(last.tab)[k] = last.info.before[k]

PartialImportApplied ==
    \* a file with some fields only, over a state it changes and whose other
    \* fields are not the empty ones
    /\ ImportedHere
    /\ \E k \in SnapshotKeys :
          /\ IsSome(last.info.file.keys[k])
          /\ Val(last.info.file.keys[k]) # last.info.before[k]
    /\ \E k \in SnapshotKeys :
          /\ last.info.file.keys[k] = None
          /\ last.info.before[k] # EmptyLocal[k]

IsWordEntry(e) == DOMAIN e = DOMAIN Abate80

IsStudyStats(st) == DOMAIN st = DOMAIN DefaultStudyStats

WellFormedFile(file) ==
    \* a JSON object whose fields, where present, have the shape of UserData
    /\ file.kind = "object"
    /\ IsSome(file.keys.favorites) =>
          \A i \in DOMAIN Val(file.keys.favorites) : IsWordEntry(Val(file.keys.favorites)[i])
    /\ IsSome(file.keys.wordCache) =>
          \A w \in DOMAIN Val(file.keys.wordCache) : IsWordEntry(Val(file.keys.wordCache)[w])
    /\ IsSome(file.keys.studyStats) => IsStudyStats(Val(file.keys.studyStats))

\* C19: the import of a malformed file is reported as an error and leaves
\* favorites, history, wordCache, settings and studyStats unchanged; no field
\* of a malformed file is ever applied.
MalformedImportRejected ==
    (ImportedHere /\ ~WellFormedFile(last.info.file)) =>
        /\ last.info.alert = "Invalid file format."
        /\ Snap(last.tab) = last.info.before

----------------------------------------------------------------------------
(* Properties of a login with a second tab open *)

\* C21: once a login and its merge have completed and the debounced save
\* after the merge has fired, every word key that was in the local or in
\* the remote favorites and wordCache at the moment of the login is present
\* both locally, in the tab that logged in, and in the remote snapshot.
LoginKeepsEveryKey ==
    (audit.on /\ audit.saved) =>
        /\ audit.favorites \subseteq KeysOf(favorites[audit.tab])
        /\ audit.wordCache \subseteq DOMAIN wordCache[audit.tab]
        /\ IsSome(cloud)
        /\ audit.favorites \subseteq KeysOf(Val(cloud).favorites)
        /\ audit.wordCache \subseteq DOMAIN Val(cloud).wordCache

----------------------------------------------------------------------------
(* Further properties of the search handlers *)

SearchEndedHere == last.op \in {"hitShown", "lookupDone", "lookupFailed"}

\* C22: a search never alters an entry that is already stored: every word
\* key of wordCache before the search ends (cache hit, successful miss or
\* failed miss) has the same timestamp and stats afterwards, also when the
\* lookup collaborator answers with a word whose key is already stored.
SearchKeepsStoredEntries ==
    SearchEndedHere =>
        \A w \in DOMAIN last.info.before.wordCache :
            /\ w \in DOMAIN wordCache[last.tab]
            /\ wordCache[last.tab][w].timestamp = last.info.before.wordCache[w].timestamp
            /\ wordCache[last.tab][w].stats = last.info.before.wordCache[w].stats

----------------------------------------------------------------------------
(* Further properties of the streak tracker *)

\* C23: studyStats change at most once per calendar day: once lastStudyDate
\* equals today, no later event of the same day (login merge, session start
\* merge, LOGIN or DATA_UPDATE replace) changes streakDays or lastStudyDate.
StatsSettledForToday ==
    ( /\ last.op = "fetchDone"
      /\ last.info.before.studyStats.lastStudyDate = today )
        => studyStats[last.tab] = last.info.before.studyStats

----------------------------------------------------------------------------
(* Properties of a failing cloud database *)

\* C24: when a remote fetch or a remote save fails, the failure is swallowed:
\* favorites, history, settings, wordCache and studyStats are unchanged and
\* the syncing indicator isSyncing is false again.
SyncFailureIsSwallowed ==
    last.op \in {"fetchFailed", "saveFailed"} =>
        /\ Snap(last.tab) = last.info.before
        /\ ~isSyncing[last.tab]

FetchFailureIsSwallowed ==
    \* the part of it that concerns fetchUserData
    last.op = "fetchFailed" =>
        /\ Snap(last.tab) = last.info.before
        /\ ~isSyncing[last.tab]

SameIgnoringCase(cache, term) == {k \in DOMAIN cache : Lower(k) = Lower(term)}

HitStarted ==
    \* handleSearch with a term that equals a stored key ignoring case: the
    \* lookup collaborator is not called and wordCache is unchanged
    ( /\ last.op = "handleSearch"
      /\ SameIgnoringCase(wordCache[last.tab], last.info.term) # {} )
        => /\ last.info.path # "miss"
           /\ wordCache[last.tab] = last.info.before.wordCache

HitDisplayed ==
    \* the end of the hit: the entry stored under its own key is displayed,
    \* the key is at the front of history, history has no duplicates and at
    \* most 20 entries, wordCache is unchanged
    last.op = "hitShown" =>
        /\ wordCache[last.tab] = last.info.before.wordCache
        /\ IsSome(currentWord[last.tab])
        /\ Val(currentWord[last.tab]).word = last.info.word
        /\ history[last.tab] # << >>
        /\ Head(history[last.tab]) = last.info.word
        /\ Lower(last.info.word) = Lower(last.info.term)
        /\ NoDuplicates(history[last.tab])
        /\ Len(history[last.tab]) <= HistoryCap

\* C25 as stated: a search whose term equals a stored key ignoring case is a
\* cache hit: the lookup collaborator is not called, wordCache is unchanged,
\* the stored entry under its original-case key becomes the displayed word
\* and that key is moved to the front of history.
EveryMatchIsDisplayedHit ==
    /\ HitStarted
    /\ HitDisplayed
    /\ (last.op = "handleSearch" /\ last.info.path = "shown") =>
          /\ history[last.tab] # << >>
          /\ Head(history[last.tab]) \in SameIgnoringCase(wordCache[last.tab], last.info.term)
          /\ currentWord[last.tab] = Some(wordCache[last.tab][Head(history[last.tab])])

\* C25: a search whose term equals a stored key ignoring case never calls
\* the lookup collaborator and leaves wordCache unchanged.  When the word on
\* display already equals the term ignoring case the search changes nothing;
\* otherwise the entry stored under the original-case key becomes the
\* displayed word and its key moves to the front of history, which stays
\* duplicate-free and at most 20 long.
MatchIsHitUnlessDisplayed ==
    /\ HitStarted
    /\ HitDisplayed
    /\ (last.op = "handleSearch" /\ last.info.path = "shown") =>
          /\ Snap(last.tab) = last.info.before
          /\ currentWord[last.tab] = last.info.shown
          /\ Lower(Val(currentWord[last.tab]).word) = Lower(last.info.term)
    /\ (last.op = "handleSearch" /\ last.info.path = "hit") =>
          \E lk \in lookups[last.tab] :
             /\ lk.kind = "hit"
             /\ lk.term = last.info.term
             /\ Val(lk.data).word \in SameIgnoringCase(wordCache[last.tab], last.info.term)
             /\ lk.data = Some(wordCache[last.tab][Val(lk.data).word])

MixedCaseHitDisplayed ==
    \* "Abate" searched with abate stored and another word at the front of
    \* history: abate is displayed and moved to the front
    /\ last.op = "hitShown"
    /\ last.info.term # last.info.word
    /\ last.info.before.history # << >>
    /\ Head(last.info.before.history) # last.info.word
    /\ Head(history[last.tab]) = last.info.word

----------------------------------------------------------------------------
(* Properties of two tabs of one user *)

ReplacedHere == FetchedHere /\ ~last.info.merge

\* C26: a context that merely applied a received remote snapshot does not
\* re-arm its debounced save, so that after one mutation only finitely many
\* saves and DATA_UPDATE broadcasts occur and two contexts of one user do not
\* save and replace each other's state forever.
ReplaceArmsNoSave ==
    ReplacedHere =>
        ~\E tm \in saveTimer[last.tab] :
            /\ tm.deadline = now + Debounce
            /\ tm.data = Snap(last.tab)

SavedWhatWasReceived ==
    \* a save that writes back the remote snapshot the tab had received and
    \* applied, and broadcasts DATA_UPDATE for it
    /\ last.op = "saveFire"
    /\ IsSome(cloud) /\ last.info.written = Val(cloud)
    /\ \E r \in Tabs \ {last.tab} : inbox[r] # << >>
    /\ audit.on /\ last.tab # audit.tab

----------------------------------------------------------------------------
(* Properties of the word book *)

\* C27: in every reachable state every word of favorites is also a key of
\* wordCache, so that a mastery action on a favorited word is never dropped
\* by updateWordStats for want of a wordCache entry.
FavoritesAreStored ==
    \A t \in Tabs : KeysOf(favorites[t]) \subseteq DOMAIN wordCache[t]

----------------------------------------------------------------------------
(* Properties of the loading phase *)

CallsInFlight(t) == {lk \in lookups[t] : lk.kind \in {"miss", "random"}}

\* C28: every loading phase ends: once all outstanding collaborator calls
\* have returned or failed, loading is false and reviewCandidate is cleared,
\* also when the random-word collaborator returns a cached or an empty word;
\* and loading is not set to false while another lookup is still in flight.
LoadingEndsWithLastCall ==
    \A t \in Tabs :
        /\ CallsInFlight(t) = {} => (~loading[t] /\ reviewCandidate[t] = None)
        /\ CallsInFlight(t) # {} => loading[t]

UniqueKeys(favs) == Len(favs) = Cardinality(KeysOf(favs))

\* C29: favorites never contain two entries with the same word key: from
\* favorites with unique keys, toggleFavorite, updateWordStats, the login
\* merge and the sync replace from a snapshot saved by any context keep the
\* keys unique, in every tab and in the remote snapshot.
FavoritesHaveUniqueKeys ==
    /\ \A t \in Tabs : UniqueKeys(favorites[t])
    /\ IsSome(cloud) => UniqueKeys(Val(cloud).favorites)

FavoriteAddedToMergedBook ==
    \* the star of a displayed word adds it to favorites that a merge with
    \* the remote favorites had filled
    /\ last.op = "toggleFavorite"
    /\ last.info.added
    /\ Len(favorites[last.tab]) >= 3
    /\ IsSome(user[last.tab])

----------------------------------------------------------------------------
(* Properties of the flashcards *)

ReviewsOf(cache, w) ==
    IF w \in DOMAIN cache THEN StatsOrDefault(cache[w].stats).reviews ELSE 0

ScoreOf(cache, w) ==
    IF w \in DOMAIN cache THEN StatsOrDefault(cache[w].stats).masteryScore ELSE 0

\* C30: within one flashcard session each word receives at most one review
\* action, however often its card is flipped or revisited with Next and
\* Prev: its reviews counter grows by at most 1 and its masteryScore by at
\* most 5 in the session.
OneReviewPerSession ==
    \A t \in Tabs :
        cards[t].open =>
            \A w \in DOMAIN cards[t].calls :
                /\ cards[t].calls[w] <= 1
                /\ ReviewsOf(wordCache[t], w) <= ReviewsOf(cards[t].start, w) + 1
                /\ ScoreOf(wordCache[t], w) <= ScoreOf(cards[t].start, w) + ReviewGain
                /\ (w \in cards[t].reviewed) = (cards[t].calls[w] = 1)

CardRevisitedAndFlippedAgain ==
    \* a card reviewed, left with Next or Prev, come back to and turned over
    \* again
    \E t \in Tabs :
        /\ cards[t].open
        /\ cards[t].isFlipped
        /\ \E w \in cards[t].left :
              /\ CurrentCard(cards[t]) = w
              /\ cards[t].flips[w] >= 2
              /\ cards[t].calls[w] = 1
              /\ ReviewsOf(wordCache[t], w) = ReviewsOf(cards[t].start, w) + 1

============================================================================
